---- MODULE Spec2Model ----
(***************************************************************************)
(* Model of salt/key.py: the key store of the Salt master (class Key for   *)
(* the zeromq/tcp transports, class RaetKey for the raet transport), its   *)
(* glob matcher, the accept / reject / delete transitions, the minion      *)
(* cache reconciliation and RaetKey.status, the classification of a        *)
(* submitted minion key.                                                   *)
(*                                                                         *)
(* A minion id is a file name, modelled as a tuple of one-character        *)
(* strings; a directory is a function from the file names it holds to the  *)
(* contents of the files.                                                  *)
(***************************************************************************)
EXTENDS Integers, Sequences, FiniteSets, TLC

VARIABLES
    transport,   \* opts['transport']: selects Key or RaetKey (get_key)
    opts,        \* the other configuration options the handlers read
    pki,         \* pki_dir: partition directory name -> directory
    m_cache,     \* cachedir/<minions>: [isdir, ids] per-minion cache directories
    cache,       \* salt.cache bank self.ACC: the ids it lists
    events,      \* events fired on the bus by the operation that ran last
    pre,         \* pki as it was when the operation that ran last began
    call,        \* the operation that ran last: arguments and outcome
    procs,       \* concurrent callers of status / accept: position and locals
    local_key,   \* pki_dir/local.key of the raet backend: [exists, mode, data]
    lk           \* the caller of write_local / read_local / delete_local

vars ==
    <<transport, opts, pki, m_cache, cache, events, pre, call, procs,
      local_key, lk>>

----------------------------------------------------------------------------
(* Identifiers, characters and their order *)

m1 == <<"m", "1">>
mStar == <<"m", "*">>
mComma == <<"m", ",", "1">>

\* the minion ids of the model
Ids == {m1, mStar, mComma}

\* the key pairs a minion presents to RaetKey.status: the pair the store
\* starts with, one with another verify key, one with another public key
Submissions ==
    {[pub |-> "A", verify |-> "A"], [pub |-> "A", verify |-> "B"],
     [pub |-> "B", verify |-> "A"]}

\* ord(c.lower()) of the characters used in ids and patterns
Ord(c) ==
    CASE c = "*" -> 42
      [] c = "," -> 44
      [] c = "1" -> 49
      [] c = "2" -> 50
      [] c = "?" -> 63
      [] c = "[" -> 91
      [] c = "]" -> 93
      [] c = "!" -> 33
      [] c = "m" -> 109
      [] c = "M" -> 109
      [] c = "x" -> 120
      [] OTHER -> 0

\* a.lower() < b.lower() for two names (Python string comparison)
RECURSIVE LowerLess(_, _)
LowerLess(a, b) ==
    IF a = <<>> THEN b # <<>>
    ELSE IF b = <<>> THEN FALSE
    ELSE IF Ord(Head(a)) # Ord(Head(b)) THEN Ord(Head(a)) < Ord(Head(b))
    ELSE LowerLess(Tail(a), Tail(b))

\* salt.utils.isorted of a directory listing (a set of distinct names)
RECURSIVE isorted(_)
isorted(S) ==
    IF S = {} THEN <<>>
    ELSE LET lo == CHOOSE x \in S : \A y \in S \ {x} : ~LowerLess(y, x)
         IN <<lo>> \o isorted(S \ {lo})

\* salt.utils.isorted of a list: stable insertion of the elements in order
RECURSIVE isortedSeq(_)
isortedSeq(s) ==
    IF s = <<>> THEN <<>>
    ELSE LET rest == isortedSeq(SubSeq(s, 1, Len(s) - 1))
             x == s[Len(s)]
             k == Cardinality({i \in 1..Len(rest) : ~LowerLess(x, rest[i])})
         IN SubSeq(rest, 1, k) \o <<x>> \o SubSeq(rest, k + 1, Len(rest))

Range(s) == {s[i] : i \in 1..Len(s)}

----------------------------------------------------------------------------
(* fnmatch.fnmatch(name, pat) on POSIX: *, ?, [seq], [!seq], literal *)

\* index of the "]" closing the class opened at pat[i], 0 when there is none
ClassEnd(pat, i) ==
    LET j0 == i + 1
        j1 == IF j0 <= Len(pat) /\ pat[j0] = "!" THEN j0 + 1 ELSE j0
        j2 == IF j1 <= Len(pat) /\ pat[j1] = "]" THEN j1 + 1 ELSE j1
        ends == {j \in j2..Len(pat) : pat[j] = "]"}
    IN IF ends = {} THEN 0 ELSE CHOOSE j \in ends : \A k \in ends : j <= k

InClass(pat, i, j, c) ==
    LET neg == pat[i + 1] = "!"
        from == IF neg THEN i + 2 ELSE i + 1
        members == {pat[k] : k \in from..(j - 1)}
    IN IF neg THEN c \notin members ELSE c \in members

RECURSIVE FnMatchFrom(_, _, _, _)
FnMatchFrom(name, k, pat, i) ==
    IF i > Len(pat) THEN k > Len(name)
    ELSE IF pat[i] = "*"
        THEN FnMatchFrom(name, k, pat, i + 1)
             \/ (k <= Len(name) /\ FnMatchFrom(name, k + 1, pat, i))
    ELSE IF pat[i] = "?"
        THEN k <= Len(name) /\ FnMatchFrom(name, k + 1, pat, i + 1)
    ELSE IF pat[i] = "[" /\ ClassEnd(pat, i) # 0
        THEN k <= Len(name)
             /\ InClass(pat, i, ClassEnd(pat, i), name[k])
             /\ FnMatchFrom(name, k + 1, pat, ClassEnd(pat, i) + 1)
    ELSE k <= Len(name) /\ name[k] = pat[i]
         /\ FnMatchFrom(name, k + 1, pat, i + 1)

fnmatch(name, pat) == FnMatchFrom(name, 1, pat, 1)

\* match.split(',')
RECURSIVE split(_)
split(match) ==
    IF "," \notin Range(match) THEN <<match>>
    ELSE LET k == CHOOSE i \in 1..Len(match) :
                     match[i] = "," /\ \A j \in 1..(i - 1) : match[j] # ","
         IN <<SubSeq(match, 1, k - 1)>> \o split(SubSeq(match, k + 1, Len(match)))

----------------------------------------------------------------------------
(* The partitions of the two backends *)

ACC == IF transport = "raet" THEN "accepted" ELSE "minions"
PEND == IF transport = "raet" THEN "pending" ELSE "minions_pre"
REJ == IF transport = "raet" THEN "rejected" ELSE "minions_rejected"
\* RaetKey.DEN is None: no directory, and no key of a dictionary of matches
DEN == IF transport = "raet" THEN "None" ELSE "minions_denied"

\* the directories _check_minions_directories returns that are not None
key_dirs == IF transport = "raet" THEN {ACC, PEND, REJ} ELSE {ACC, PEND, REJ, DEN}

\* dictionaries are functions; d.get(k, [])
Get(d, k) == IF k \in DOMAIN d THEN d[k] ELSE <<>>

\* the order in which the model iterates over the keys of a dictionary
Rank(k) ==
    CASE k = ACC -> 1
      [] k = PEND -> 2
      [] k = REJ -> 3
      [] k = DEN -> 4
      [] OTHER -> 5

RECURSIVE iterkeys(_)
iterkeys(K) ==
    IF K = {} THEN <<>>
    ELSE LET k == CHOOSE x \in K : \A y \in K : Rank(x) <= Rank(y)
         IN <<k>> \o iterkeys(K \ {k})

\* directory updates
Remove(dir, name) == [x \in (DOMAIN dir) \ {name} |-> dir[x]]
Put(dir, name, data) ==
    [x \in (DOMAIN dir) \cup {name} |-> IF x = name THEN data ELSE dir[x]]

\* Key.list_keys on the store p: partition -> sorted listing
list_keys(p) == [d \in key_dirs |-> isorted(DOMAIN p[d])]

\* the partitions that hold id in the store p
partitions_of(p, id) == {d \in key_dirs : id \in DOMAIN p[d]}

\* the ids of every partition, as check_minion_cache collects them
minions_of(p) == UNION {DOMAIN p[d] : d \in key_dirs}

\* the inner loops of name_match for one key: the key once per matching item
RECURSIVE match_items(_, _)
match_items(key, items) ==
    IF items = <<>> THEN <<>>
    ELSE (IF fnmatch(key, Head(items)) THEN <<key>> ELSE <<>>)
         \o match_items(key, Tail(items))

RECURSIVE match_keys(_, _)
match_keys(keys, match) ==
    IF keys = <<>> THEN <<>>
    ELSE (IF "," \in Range(match)
             THEN match_items(Head(keys), split(match))
             ELSE IF fnmatch(Head(keys), match) THEN <<Head(keys)>> ELSE <<>>)
         \o match_keys(Tail(keys), match)

\* a match that lists every partition, matched or not
name_match_every(p, match) ==
    LET matches == list_keys(p)
    IN [d \in DOMAIN matches |-> match_keys(matches[d], match)]

\* Key.name_match(match) on the store p (full=False)
name_match(p, match) ==
    LET matches == list_keys(p)
        hit == {d \in DOMAIN matches : match_keys(matches[d], match) # <<>>}
    IN [d \in hit |-> match_keys(matches[d], match)]

\* fnmatch.filter(names, pat) is not empty
filter_hits(names, pat) == \E i \in 1..Len(names) : fnmatch(names[i], pat)

\* Key.dict_match: the pairs (keydir, key) appended, in order
RECURSIVE dict_match_keys(_, _)
dict_match_keys(cur_keys, keys) ==
    IF keys = <<>> THEN <<>>
    ELSE SelectSeq(<<<<ACC, Head(keys)>>, <<PEND, Head(keys)>>,
                     <<REJ, Head(keys)>>, <<DEN, Head(keys)>>>>,
                   LAMBDA e : e[1] # "None"
                              /\ filter_hits(Get(cur_keys, e[1]), e[2]))
         \o dict_match_keys(cur_keys, Tail(keys))

RECURSIVE dict_match_pairs(_, _, _)
dict_match_pairs(cur_keys, match_dict, statuses) ==
    IF statuses = <<>> THEN <<>>
    ELSE dict_match_keys(cur_keys, isortedSeq(match_dict[Head(statuses)]))
         \o dict_match_pairs(cur_keys, match_dict, Tail(statuses))

\* the values of a list of pairs whose first component is d
RECURSIVE under(_, _)
under(pairs, d) ==
    IF pairs = <<>> THEN <<>>
    ELSE (IF Head(pairs)[1] = d THEN <<Head(pairs)[2]>> ELSE <<>>)
         \o under(Tail(pairs), d)

dict_match(p, match_dict) ==
    LET pairs == dict_match_pairs(list_keys(p), match_dict,
                                  iterkeys(DOMAIN match_dict))
    IN [d \in {e[1] : e \in Range(pairs)} |-> under(pairs, d)]

----------------------------------------------------------------------------
(* File contents *)

\* salt.payload.Serial.dumps / loads of a mapping, as a list of (key, value)
dumps(keydata) ==
    <<<<"minion_id", keydata.minion_id>>, <<"pub", keydata.pub>>,
      <<"verify", keydata.verify>>>>
loads(data) == [minion_id |-> data[1][2], pub |-> data[2][2], verify |-> data[3][2]]

\* the text of a PEM public key file of the zeromq backend
pem(k) == <<<<"pem", k>>>>

\* the contents a key file has when the master starts
initial_content(id) ==
    IF transport = "raet"
    THEN dumps([minion_id |-> id, pub |-> "A", verify |-> "A"])
    ELSE pem("A")

----------------------------------------------------------------------------
(* Storage primitives and the batch loops *)

\* shutil.move(pki/src/key, pki/dst/key): a rename, which replaces the target;
\* it raises when the source file is missing or the storage refuses (bad)
can_move(p, src, key, bad) ==
    src \in DOMAIN p /\ key \in DOMAIN p[src] /\ key \notin bad

\* a move that leaves an empty file at the destination
move_truncating(p, src, key, dst) ==
    IF src = dst THEN p
    ELSE [p EXCEPT ![src] = Remove(p[src], key), ![dst] = Put(p[dst], key, <<>>)]

\* a move that copies: the source file stays
move_copy(p, src, key, dst) ==
    [p EXCEPT ![dst] = Put(p[dst], key, p[src][key])]

move(p, src, key, dst) ==
    IF src = dst THEN p
    ELSE [p EXCEPT ![src] = Remove(p[src], key),
                   ![dst] = Put(p[dst], key, p[src][key])]

\* os.remove(pki/status/key)
remove(p, status, key) == [p EXCEPT ![status] = Remove(p[status], key)]

\* matches.get(keydir, []) for each keydir in turn, as (keydir, key) pairs
RECURSIVE work_list(_, _)
work_list(matches, keydirs) ==
    IF keydirs = <<>> THEN <<>>
    ELSE [i \in 1..Len(Get(matches, Head(keydirs))) |->
             <<Head(keydirs), Get(matches, Head(keydirs))[i]>>]
         \o work_list(matches, Tail(keydirs))

\* a loop that gives up at the first key the storage refuses
RECURSIVE move_loop_abort(_, _, _, _)
move_loop_abort(p, work, dst, bad) ==
    IF work = <<>> THEN [pki |-> p, done |-> <<>>]
    ELSE LET src == Head(work)[1]
             key == Head(work)[2]
         IN IF can_move(p, src, key, bad)
            THEN LET r == move_loop_abort(move(p, src, key, dst), Tail(work), dst, bad)
                 IN [pki |-> r.pki, done |-> <<key>> \o r.done]
            ELSE [pki |-> p, done |-> <<>>]

\* a loop that records every key it tried, moved or not
RECURSIVE move_loop_eager(_, _, _, _)
move_loop_eager(p, work, dst, bad) ==
    IF work = <<>> THEN [pki |-> p, done |-> <<>>]
    ELSE LET src == Head(work)[1]
             key == Head(work)[2]
             q == IF can_move(p, src, key, bad) THEN move(p, src, key, dst) ELSE p
             r == move_loop_eager(q, Tail(work), dst, bad)
         IN [pki |-> r.pki, done |-> <<key>> \o r.done]

\* the loop "for keydir in keydirs: for key in matches.get(keydir, [])" of accept
\* and reject: [pki, done], done being the keys moved, in order
RECURSIVE move_loop(_, _, _, _)
move_loop(p, work, dst, bad) ==
    IF work = <<>> THEN [pki |-> p, done |-> <<>>]
    ELSE LET src == Head(work)[1]
             key == Head(work)[2]
         IN IF can_move(p, src, key, bad)
            THEN LET r == move_loop(move(p, src, key, dst), Tail(work), dst, bad)
                 IN [pki |-> r.pki, done |-> <<key>> \o r.done]
            ELSE move_loop(p, Tail(work), dst, bad)

\* the loop "for status, keys in matches: for key in keys" of delete_key
RECURSIVE remove_loop(_, _, _)
remove_loop(p, work, bad) ==
    IF work = <<>> THEN [pki |-> p, done |-> <<>>]
    ELSE LET status == Head(work)[1]
             key == Head(work)[2]
         IN IF can_move(p, status, key, bad)
            THEN LET r == remove_loop(remove(p, status, key), Tail(work), bad)
                 IN [pki |-> r.pki, done |-> <<key>> \o r.done]
            ELSE remove_loop(p, Tail(work), bad)

\* no revocation asked for; otherwise get_local_client / cmd_async raise
\* rv.raises for the keys of rv.on and nothing for the others
NoRevoke == [revoke_auth |-> FALSE, raises |-> "", on |-> {}]

\* a loop that leaves the key file when revocation is not allowed
RECURSIVE revoke_remove_loop_gated(_, _, _, _, _)
revoke_remove_loop_gated(p, work, bad, rv, guarded) ==
    IF work = <<>>
    THEN [pki |-> p, done |-> <<>>, revoked |-> <<>>, warned |-> <<>>, raised |-> ""]
    ELSE LET status == Head(work)[1]
             key == Head(work)[2]
             warn == rv.revoke_auth /\ opts.rotate_aes_key = "False"
             send == rv.revoke_auth /\ opts.rotate_aes_key # "False"
             exc == IF send /\ key \in rv.on THEN rv.raises ELSE ""
             caught == exc = "SaltClientError" \/ (guarded /\ exc = "IOError")
             removes == exc \in {"", "SaltClientError"} /\ ~warn
                        /\ can_move(p, status, key, bad)
             r == revoke_remove_loop_gated(IF removes THEN remove(p, status, key) ELSE p,
                                           Tail(work), bad, rv, guarded)
         IN IF exc # "" /\ ~caught
            THEN [pki |-> p, done |-> <<>>, revoked |-> <<key>>, warned |-> <<>>,
                  raised |-> exc]
            ELSE [pki |-> r.pki,
                  done |-> (IF removes THEN <<key>> ELSE <<>>) \o r.done,
                  revoked |-> (IF send THEN <<key>> ELSE <<>>) \o r.revoked,
                  warned |-> (IF warn THEN <<key>> ELSE <<>>) \o r.warned,
                  raised |-> r.raised]

\* the loop "for status, keys in matches: for key in keys" of delete_key with
\* its revocation: [pki, done, revoked, warned, raised], revoked being the
\* keys a revoke command was issued for and warned the keys the warning was
\* printed for.  guarded tells whether the revocation stands inside the try
\* whose "except (OSError, IOError)" surrounds os.remove (Key) or before it
\* (RaetKey)
RECURSIVE revoke_remove_loop(_, _, _, _, _)
revoke_remove_loop(p, work, bad, rv, guarded) ==
    IF work = <<>>
    THEN [pki |-> p, done |-> <<>>, revoked |-> <<>>, warned |-> <<>>, raised |-> ""]
    ELSE LET status == Head(work)[1]
             key == Head(work)[2]
             warn == rv.revoke_auth /\ opts.rotate_aes_key = "False"
             send == rv.revoke_auth /\ opts.rotate_aes_key # "False"
             exc == IF send /\ key \in rv.on THEN rv.raises ELSE ""
             caught == exc = "SaltClientError" \/ (guarded /\ exc = "IOError")
             removes == exc \in {"", "SaltClientError"}
                        /\ can_move(p, status, key, bad)
             r == revoke_remove_loop(IF removes THEN remove(p, status, key) ELSE p,
                                     Tail(work), bad, rv, guarded)
         IN IF exc # "" /\ ~caught
            THEN [pki |-> p, done |-> <<>>, revoked |-> <<key>>, warned |-> <<>>,
                  raised |-> exc]
            ELSE [pki |-> r.pki,
                  done |-> (IF removes THEN <<key>> ELSE <<>>) \o r.done,
                  revoked |-> (IF send THEN <<key>> ELSE <<>>) \o r.revoked,
                  warned |-> (IF warn THEN <<key>> ELSE <<>>) \o r.warned,
                  raised |-> r.raised]

\* eload = {'result': True, 'act': act, 'id': key} for each key of done
fire_events(act, done) ==
    [i \in 1..Len(done) |-> [result |-> TRUE, act |-> act, id |-> done[i]]]

----------------------------------------------------------------------------
(* Cache reconciliation *)

\* shutil.rmtree of the stale directories, in the order of the listing: the
\* directories of mc.locked cannot be removed, and the first of them ends the
\* loop with OSError; [m_cache, raised]
rmtree_stale(mc, stale) ==
    LET order == isorted(stale)
        stuck == {i \in 1..Len(order) : order[i] \in mc.locked}
        first == IF stuck = {} THEN Len(order) + 1
                 ELSE CHOOSE i \in stuck : \A j \in stuck : i <= j
    IN [m_cache |-> [mc EXCEPT !.ids = mc.ids \ {order[i] : i \in 1..(first - 1)}],
        raised |-> IF stuck = {} THEN "" ELSE "OSError"]

\* Key.check_minion_cache(preserve_minions): [m_cache, cache, raised, ran],
\* ran counting the call
Key_check_minion_cache(p, mc, c, preserve_minions) ==
    LET minions == minions_of(p)
        keep == minions \cup Range(preserve_minions)
        fs == IF mc.isdir THEN rmtree_stale(mc, mc.ids \ keep)
              ELSE [m_cache |-> mc, raised |-> ""]
    IN IF ~opts.preserve_minion_cache \/ preserve_minions = <<>>
       THEN IF fs.raised # ""
            THEN [m_cache |-> fs.m_cache, cache |-> c, raised |-> fs.raised, ran |-> 1]
            ELSE [m_cache |-> fs.m_cache, cache |-> c \cap keep, raised |-> "",
                  ran |-> 1]
       ELSE [m_cache |-> mc, cache |-> c, raised |-> "", ran |-> 1]

\* RaetKey.check_minion_cache(preserve_minions=False): is_list is FALSE when
\* the argument is the default False, on which "minion not in preserve_minions"
\* raises TypeError
RaetKey_check_minion_cache(p, mc, c, is_list, preserve_minions) ==
    LET minions == minions_of(p)
        fs == rmtree_stale(mc, mc.ids \ minions)
    IN IF ~mc.isdir THEN [m_cache |-> mc, cache |-> c, raised |-> "", ran |-> 1]
       ELSE IF fs.raised # ""
       THEN [m_cache |-> fs.m_cache, cache |-> c, raised |-> fs.raised, ran |-> 1]
       ELSE IF ~is_list /\ c \ minions # {}
       THEN [m_cache |-> fs.m_cache, cache |-> c, raised |-> "TypeError", ran |-> 1]
       ELSE [m_cache |-> fs.m_cache,
             cache |-> c \cap (minions \cup Range(preserve_minions)),
             raised |-> "", ran |-> 1]

----------------------------------------------------------------------------
(* The handlers.  Each returns the state it leaves and what it returns:      *)
(* [pki, m_cache, cache, events, ret, state, raised], and with them the      *)
(* number of calls of check_minion_cache it made and the keys it issued a    *)
(* revoke command or printed the rotation warning for                        *)

Outcome(p, mc, c, ev, ret, state, raised) ==
    [pki |-> p, m_cache |-> mc, cache |-> c, events |-> ev,
     ret |-> ret, state |-> state, raised |-> raised,
     checks |-> 0, revoked |-> <<>>, warned |-> <<>>]

\* what a handler leaves that ends with check_minion_cache, k being the
\* outcome of that call: an exception of the call is the handler's, and no
\* value is returned
Reconciled(p, k, ev, ret) ==
    [Outcome(p, k.m_cache, k.cache, ev, IF k.raised = "" THEN ret ELSE <<>>, "",
             k.raised) EXCEPT !.checks = k.ran]

\* "matches" of accept / reject / delete_key
resolve(p, form, match, match_dict) ==
    IF form = "match" THEN name_match(p, match)
    ELSE IF form = "match_dict" THEN match_dict
    ELSE <<>>

\* a result that is the matches gathered before the loop
result_of_matches(p, form, match, matches) == matches

\* the value accept / reject / delete_key return
result_of(p, form, match, matches) ==
    IF form = "match" THEN name_match(p, match) ELSE dict_match(p, matches)

\* a list of source partitions that also names the accepted partition
keydirs_of_with_acc(first, inc, included, include_denied) ==
    <<first, ACC>> \o (IF inc THEN <<included>> ELSE <<>>)
                   \o (IF include_denied THEN <<DEN>> ELSE <<>>)

\* keydirs = [self.PEND] plus the included partitions
keydirs_of(first, inc, included, include_denied) ==
    <<first>> \o (IF inc THEN <<included>> ELSE <<>>)
              \o (IF include_denied THEN <<DEN>> ELSE <<>>)

Key_accept(p, mc, c, form, match, match_dict, include_rejected, include_denied, bad) ==
    LET matches == resolve(p, form, match, match_dict)
        keydirs == keydirs_of(PEND, include_rejected, REJ, include_denied)
        r == move_loop(p, work_list(matches, keydirs), ACC, bad)
    IN Outcome(r.pki, mc, c, fire_events("accept", r.done),
               result_of(r.pki, form, match, matches), "", "")

RaetKey_accept(p, mc, c, form, match, match_dict, include_rejected, include_denied, bad) ==
    LET matches == resolve(p, form, match, match_dict)
        keydirs == keydirs_of(PEND, include_rejected, REJ, include_denied)
        r == move_loop(p, work_list(matches, keydirs), ACC, bad)
    IN Outcome(r.pki, mc, c, <<>>,
               result_of(r.pki, form, match, matches), "", "")

Key_reject(p, mc, c, form, match, match_dict, include_accepted, include_denied, bad) ==
    LET matches == resolve(p, form, match, match_dict)
        keydirs == keydirs_of(PEND, include_accepted, ACC, include_denied)
        r == move_loop(p, work_list(matches, keydirs), REJ, bad)
        k == Key_check_minion_cache(r.pki, mc, c, <<>>)
    IN Reconciled(r.pki, k, fire_events("reject", r.done),
                  result_of(r.pki, form, match, matches))

RaetKey_reject(p, mc, c, form, match, match_dict, include_accepted, include_denied, bad) ==
    LET matches == resolve(p, form, match, match_dict)
        keydirs == keydirs_of(PEND, include_accepted, ACC, include_denied)
        r == move_loop(p, work_list(matches, keydirs), REJ, bad)
        k == RaetKey_check_minion_cache(r.pki, mc, c, FALSE, <<>>)
    IN Reconciled(r.pki, k, <<>>, result_of(r.pki, form, match, matches))

\* what the loop of delete_key leaves when an exception ends it: no
\* reconciliation, no value
Aborted(r, mc, c, ev) ==
    [Outcome(r.pki, mc, c, ev, <<>>, "", r.raised)
        EXCEPT !.revoked = r.revoked, !.warned = r.warned]

Key_delete_key(p, mc, c, form, match, match_dict, preserve_minions, bad, rv) ==
    LET matches == resolve(p, form, match, match_dict)
        r == revoke_remove_loop(p, work_list(matches, iterkeys(DOMAIN matches)),
                                bad, rv, TRUE)
        preserve_minions_list ==
            IF preserve_minions THEN Get(matches, "minions") ELSE <<>>
        k == Key_check_minion_cache(r.pki, mc, c, preserve_minions_list)
    IN IF r.raised # "" THEN Aborted(r, mc, c, fire_events("delete", r.done))
       ELSE [Reconciled(r.pki, k, fire_events("delete", r.done),
                        result_of(r.pki, form, match, matches))
                EXCEPT !.revoked = r.revoked, !.warned = r.warned]

RaetKey_delete_key(p, mc, c, form, match, match_dict, preserve_minions, bad, rv) ==
    LET matches == resolve(p, form, match, match_dict)
        r == revoke_remove_loop(p, work_list(matches, iterkeys(DOMAIN matches)),
                                bad, rv, FALSE)
        k == RaetKey_check_minion_cache(r.pki, mc, c, TRUE, Get(matches, "minions"))
    IN IF r.raised # "" THEN Aborted(r, mc, c, <<>>)
       ELSE [Reconciled(r.pki, k, <<>>, result_of(r.pki, form, match, matches))
                EXCEPT !.revoked = r.revoked, !.warned = r.warned]

\* Key.accept_all / RaetKey.accept_all: every pending key, as list_keys gives
\* them when the call begins
Key_accept_all(p, mc, c, bad) ==
    LET r == move_loop(p, work_list(list_keys(p), <<PEND>>), ACC, bad)
    IN Outcome(r.pki, mc, c, fire_events("accept", r.done), list_keys(r.pki), "", "")

RaetKey_accept_all(p, mc, c, bad) ==
    LET r == move_loop(p, work_list(list_keys(p), <<PEND>>), ACC, bad)
    IN Outcome(r.pki, mc, c, <<>>, list_keys(r.pki), "", "")

\* Key.reject_all / RaetKey.reject_all
Key_reject_all(p, mc, c, bad) ==
    LET r == move_loop(p, work_list(list_keys(p), <<PEND>>), REJ, bad)
        k == Key_check_minion_cache(r.pki, mc, c, <<>>)
    IN Reconciled(r.pki, k, fire_events("reject", r.done), list_keys(r.pki))

RaetKey_reject_all(p, mc, c, bad) ==
    LET r == move_loop(p, work_list(list_keys(p), <<PEND>>), REJ, bad)
        k == RaetKey_check_minion_cache(r.pki, mc, c, FALSE, <<>>)
    IN Reconciled(r.pki, k, <<>>, list_keys(r.pki))

\* Key.delete_all / RaetKey.delete_all: every key of every partition
Key_delete_all(p, mc, c, bad) ==
    LET r == remove_loop(p, work_list(list_keys(p), iterkeys(key_dirs)), bad)
        k == Key_check_minion_cache(r.pki, mc, c, <<>>)
    IN Reconciled(r.pki, k, fire_events("delete", r.done), list_keys(r.pki))

RaetKey_delete_all(p, mc, c, bad) ==
    LET r == remove_loop(p, work_list(list_keys(p), iterkeys(key_dirs)), bad)
        k == RaetKey_check_minion_cache(r.pki, mc, c, FALSE, <<>>)
    IN Reconciled(r.pki, k, <<>>, list_keys(r.pki))

\* Key.delete_den: "for status, keys in self.list_keys().items(): for key in
\* keys[self.DEN]" indexes the list keys with a string, which raises
\* TypeError at the first status; list_keys gives a list, empty or not, for
\* each of the four partitions
Key_delete_den(p, mc, c, bad) ==
    LET statuses == iterkeys(DOMAIN list_keys(p))
        k == Key_check_minion_cache(p, mc, c, <<>>)
    IN IF statuses # <<>> THEN Outcome(p, mc, c, <<>>, <<>>, "", "TypeError")
       ELSE Reconciled(p, k, <<>>, list_keys(p))

\* a check that never finds the file
isfile_never(p, d, minion_id) == FALSE

\* os.path.isfile(pki/d/minion_id)
isfile(p, d, minion_id) == minion_id \in DOMAIN p[d]

\* a comparison that forgets the verify key
same_keys_pub_only(data, pub, verify) == loads(data).pub = pub

\* keydata['pub'] == pub and keydata['verify'] == verify, keydata being loaded
\* from the file contents data
same_keys(data, pub, verify) ==
    loads(data).pub = pub /\ loads(data).verify = verify

\* a write that keeps the file when there is one
write_key_if_absent(p, d, keydata) ==
    IF keydata.minion_id \in DOMAIN p[d] THEN p
    ELSE [p EXCEPT ![d] = Put(p[d], keydata.minion_id, dumps(keydata))]

\* with fopen(w_path, 'w+b') as fp_: fp_.write(self.serial.dumps(keydata))
write_key(p, d, keydata) ==
    [p EXCEPT ![d] = Put(p[d], keydata.minion_id, dumps(keydata))]

\* a placement that consults auto_reject before auto_sign
new_key_state_reject_first(auto_reject, auto_sign) ==
    IF opts.auto_accept THEN ACC
    ELSE IF auto_reject THEN REJ
    ELSE IF auto_sign THEN ACC
    ELSE PEND

\* where RaetKey.status places a key it has no file for
new_key_state(auto_reject, auto_sign) ==
    IF opts.auto_accept THEN ACC
    ELSE IF auto_sign THEN ACC
    ELSE IF auto_reject THEN REJ
    ELSE PEND

\* RaetKey.status(minion_id, pub, verify); auto_reject and auto_sign are the
\* answers of self.auto_key.check_autoreject / check_autosign for minion_id
RaetKey_status(p, mc, c, minion_id, pub, verify, auto_reject, auto_sign) ==
    LET keydata == [minion_id |-> minion_id, pub |-> pub, verify |-> verify]
        w == new_key_state(auto_reject, auto_sign)
    IN IF opts.open_mode
       THEN Outcome(write_key(p, ACC, keydata), mc, c, <<>>, <<>>, ACC, "")
       ELSE IF isfile(p, REJ, minion_id)
       THEN Outcome(p, mc, c, <<>>, <<>>, REJ, "")
       ELSE IF isfile(p, ACC, minion_id)
       THEN Outcome(p, mc, c, <<>>, <<>>,
                    IF same_keys(p[ACC][minion_id], pub, verify) THEN ACC ELSE REJ,
                    "")
       ELSE IF isfile(p, PEND, minion_id)
       THEN IF same_keys(p[PEND][minion_id], pub, verify)
            THEN IF auto_reject
                 THEN LET r == RaetKey_reject(p, mc, c, "match", minion_id, <<>>,
                                              FALSE, FALSE, {})
                      IN Outcome(r.pki, r.m_cache, r.cache, r.events, <<>>,
                                 IF r.raised = "" THEN REJ ELSE "", r.raised)
                 ELSE IF auto_sign
                 THEN LET r == RaetKey_accept(p, mc, c, "match", minion_id, <<>>,
                                              FALSE, FALSE, {})
                      IN Outcome(r.pki, r.m_cache, r.cache, r.events, <<>>, ACC, "")
                 ELSE Outcome(p, mc, c, <<>>, <<>>, PEND, "")
            ELSE Outcome(p, mc, c, <<>>, <<>>, REJ, "")
       ELSE Outcome(write_key(p, w, keydata), mc, c, <<>>, <<>>, w, "")

----------------------------------------------------------------------------
(* Inputs of the operations *)

\* the store holds at most MaxKeys key files
MaxKeys == 2

\* globs given as "match": everything, one id, a glob that is also an id, a
\* comma list that is also an id, and a comma list whose items overlap
Patterns == {<<"*">>, m1, mStar, mComma, <<"m", "1", ",", "m", "*">>}

\* pre-gathered matches given as "match_dict"
MatchDicts ==
    {[d \in {k} |-> <<m1>>] : k \in key_dirs}
    \cup {[d \in {PEND} |-> <<mStar>>], [d \in key_dirs |-> isorted(Ids)]}

\* the sets of ids whose file the storage refuses to move or remove
BadSets == {{}, {m1}}

\* (form, match, match_dict) of accept / reject / delete_key
Targets ==
    {<<"match", pat, <<>>>> : pat \in Patterns}
    \cup {<<"match_dict", <<>>, md>> : md \in MatchDicts}
    \cup {<<"none", <<>>, <<>>>>}

\* the operator's calls that run between classifications
OperatorTargets == {<<"match", <<"*">>, <<>>>>}

\* the concurrent callers of RaetKey.status and the id they present: s1 holds
\* the keys the store starts with, s2 holds the same public key with another
\* verify key
Procs == {"s1", "s2"}
ConcIds == {m1}
keys_of(s) ==
    IF s = "s1" THEN [pub |-> "A", verify |-> "A"] ELSE [pub |-> "A", verify |-> "B"]

\* a caller that is not inside status
IdleProc ==
    [pc |-> "idle", minion_id |-> <<>>, pub |-> "", verify |-> "",
     auto_reject |-> FALSE, auto_sign |-> FALSE, had |-> FALSE, work |-> <<>>,
     state |-> "", raised |-> "", at_return |-> <<>>]

\* no operation has run, or its result has been taken
Idle ==
    [op |-> "idle", form |-> "none", match |-> <<>>, match_dict |-> <<>>,
     include |-> FALSE, include_denied |-> FALSE, preserve_minions |-> FALSE,
     bad |-> {}, minion_id |-> <<>>, pub |-> "", verify |-> "",
     auto_reject |-> FALSE, auto_sign |-> FALSE,
     revoke |-> NoRevoke, revoked |-> <<>>, warned |-> <<>>, checks |-> 0,
     ret |-> <<>>, state |-> "", raised |-> ""]

----------------------------------------------------------------------------
(* The local identity file of the raet backend *)

\* stat.S_IRUSR, stat.S_IWUSR, the argument of os.umask in write_local, and
\* the mode with which open() creates a file
S_IRUSR == 256
S_IWUSR == 128
write_local_umask == 191
open_create_mode == 438

\* the permission bits of a mode, least significant first
PermBits == <<1, 2, 4, 8, 16, 32, 64, 128, 256>>

\* bit b of the mode n
bit(n, b) == (n \div b) % 2

\* a | b and a & ~b on permission bits
RECURSIVE bit_or(_, _, _)
bit_or(a, b, k) ==
    IF k > Len(PermBits) THEN 0
    ELSE (IF bit(a, PermBits[k]) = 1 \/ bit(b, PermBits[k]) = 1
          THEN PermBits[k] ELSE 0) + bit_or(a, b, k + 1)

RECURSIVE bit_and_not(_, _, _)
bit_and_not(a, b, k) ==
    IF k > Len(PermBits) THEN 0
    ELSE (IF bit(a, PermBits[k]) = 1 /\ bit(b, PermBits[k]) = 0
          THEN PermBits[k] ELSE 0) + bit_and_not(a, b, k + 1)

\* the private and signing keys passed to write_local
PrivKeys == {"P1", "P2"}
SignKeys == {"S1", "S2"}

\* self.serial.dumps / loads of {'priv': priv, 'sign': sign}
dumps_local(keydata) == <<<<"priv", keydata.priv>>, <<"sign", keydata.sign>>>>
loads_local(data) == [priv |-> data[1][2], sign |-> data[2][2]]

NoLocalKey == [exists |-> FALSE, mode |-> 0, data |-> <<>>]

\* a caller outside write_local / read_local; wrote is the keydata of the last
\* completed write_local that no delete_local followed, as a list of at most
\* one element; overwrote tells whether that write found a file
IdleLocal ==
    [pc |-> "idle", priv |-> "", sign |-> "", umask |-> 18, c_umask |-> 18,
     buf |-> <<>>, ret |-> <<>>, raised |-> "", wrote |-> <<>>,
     overwrote |-> FALSE]

\* a mode that ignores the umask of the process
create_mode_unmasked(umask) == open_create_mode

\* the mode of a file that open() creates under umask
create_mode(umask) == bit_and_not(open_create_mode, umask, 1)

\* an open in append mode: the contents stay
fopen_append(file, umask) ==
    IF file.exists THEN file
    ELSE [exists |-> TRUE, mode |-> create_mode(umask), data |-> <<>>]

\* salt.utils.fopen(path, 'w+'): an existing file is truncated and keeps its
\* mode, a missing one is created
fopen_w(file, umask) ==
    IF file.exists THEN [file EXCEPT !.data = <<>>]
    ELSE [exists |-> TRUE, mode |-> create_mode(umask), data |-> <<>>]

\* RaetKey.read_local on the file
read_local(file) == IF ~file.exists THEN <<>> ELSE loads_local(file.data)

----------------------------------------------------------------------------
(* Initial states: every id in at most one partition *)

keys_in(p) == Cardinality(minions_of(p))

Stores ==
    {[d \in key_dirs |-> [id \in {i \in Ids : at[i] = d} |-> initial_content(id)]] :
        at \in {f \in [Ids -> key_dirs \cup {"absent"}] :
                   Cardinality({i \in Ids : f[i] # "absent"}) <= MaxKeys}}

\* what every specification starts from, the transport and the options aside
InitStore ==
    /\ pki \in Stores
    /\ m_cache \in {[isdir |-> FALSE, ids |-> {}, locked |-> {}],
                   [isdir |-> TRUE, ids |-> Ids, locked |-> {}]}
    /\ cache = m_cache.ids
    /\ events = <<>>
    /\ pre = pki
    /\ call = Idle
    /\ procs = [s \in Procs |-> IdleProc]
    /\ local_key = NoLocalKey
    /\ lk = IdleLocal

\* a master of either transport; open_mode and auto_accept, which only
\* RaetKey.status reads, are left off
Init ==
    /\ transport \in {"zeromq", "raet"}
    /\ opts \in [open_mode : {FALSE}, auto_accept : {FALSE},
                 preserve_minion_cache : BOOLEAN, rotate_aes_key : {"True"}]
    /\ (transport = "raet" => ~opts.preserve_minion_cache)
    /\ InitStore

\* a master of the raet transport whose minion cache directory exists
InitStatus ==
    /\ transport = "raet"
    /\ opts \in [open_mode : BOOLEAN, auto_accept : BOOLEAN,
                 preserve_minion_cache : {FALSE}, rotate_aes_key : {"True"}]
    /\ InitStore
    /\ m_cache.isdir

\* the state an operation leaves, o being the handler's outcome
Leaves(o, c) ==
    /\ pki' = o.pki
    /\ m_cache' = o.m_cache
    /\ cache' = o.cache
    /\ events' = o.events
    /\ pre' = pki
    /\ call' = [c EXCEPT !.ret = o.ret, !.state = o.state, !.raised = o.raised,
                         !.checks = o.checks, !.revoked = o.revoked,
                         !.warned = o.warned]
    /\ UNCHANGED <<local_key, lk, transport, opts, procs>>

Accept(targets, bads) ==
    /\ call.op = "idle"
    /\ \E t \in targets, include_rejected \in BOOLEAN, include_denied \in BOOLEAN,
          bad \in bads :
         Leaves(IF transport = "raet"
                THEN RaetKey_accept(pki, m_cache, cache, t[1], t[2], t[3],
                                    include_rejected, include_denied, bad)
                ELSE Key_accept(pki, m_cache, cache, t[1], t[2], t[3],
                                include_rejected, include_denied, bad),
                [Idle EXCEPT !.op = "accept", !.form = t[1], !.match = t[2],
                             !.match_dict = t[3], !.include = include_rejected,
                             !.include_denied = include_denied, !.bad = bad])

Reject(targets, bads) ==
    /\ call.op = "idle"
    /\ \E t \in targets, include_accepted \in BOOLEAN, include_denied \in BOOLEAN,
          bad \in bads :
         Leaves(IF transport = "raet"
                THEN RaetKey_reject(pki, m_cache, cache, t[1], t[2], t[3],
                                    include_accepted, include_denied, bad)
                ELSE Key_reject(pki, m_cache, cache, t[1], t[2], t[3],
                                include_accepted, include_denied, bad),
                [Idle EXCEPT !.op = "reject", !.form = t[1], !.match = t[2],
                             !.match_dict = t[3], !.include = include_accepted,
                             !.include_denied = include_denied, !.bad = bad])

Delete(targets, bads, revokes) ==
    /\ call.op = "idle"
    /\ \E t \in targets, preserve_minions \in BOOLEAN, bad \in bads,
          rv \in revokes :
         Leaves(IF transport = "raet"
                THEN RaetKey_delete_key(pki, m_cache, cache, t[1], t[2], t[3],
                                        preserve_minions, bad, rv)
                ELSE Key_delete_key(pki, m_cache, cache, t[1], t[2], t[3],
                                    preserve_minions, bad, rv),
                [Idle EXCEPT !.op = "delete_key", !.form = t[1], !.match = t[2],
                             !.match_dict = t[3],
                             !.preserve_minions = preserve_minions, !.bad = bad,
                             !.revoke = rv])

AcceptAll(bads) ==
    /\ call.op = "idle"
    /\ \E bad \in bads :
         Leaves(IF transport = "raet"
                THEN RaetKey_accept_all(pki, m_cache, cache, bad)
                ELSE Key_accept_all(pki, m_cache, cache, bad),
                [Idle EXCEPT !.op = "accept_all", !.bad = bad])

RejectAll(bads) ==
    /\ call.op = "idle"
    /\ \E bad \in bads :
         Leaves(IF transport = "raet"
                THEN RaetKey_reject_all(pki, m_cache, cache, bad)
                ELSE Key_reject_all(pki, m_cache, cache, bad),
                [Idle EXCEPT !.op = "reject_all", !.bad = bad])

DeleteAll(bads) ==
    /\ call.op = "idle"
    /\ \E bad \in bads :
         Leaves(IF transport = "raet"
                THEN RaetKey_delete_all(pki, m_cache, cache, bad)
                ELSE Key_delete_all(pki, m_cache, cache, bad),
                [Idle EXCEPT !.op = "delete_all", !.bad = bad])

DeleteDen(bads) ==
    /\ call.op = "idle"
    /\ transport = "zeromq"
    /\ \E bad \in bads :
         Leaves(Key_delete_den(pki, m_cache, cache, bad),
                [Idle EXCEPT !.op = "delete_den", !.bad = bad])

\* a minion presents its keys; one that is not known yet is only admitted
\* while the store holds fewer than MaxKeys ids
Status ==
    /\ call.op = "idle"
    /\ transport = "raet"
    /\ \E minion_id \in Ids, k \in Submissions,
          auto_reject \in BOOLEAN, auto_sign \in BOOLEAN :
         /\ minion_id \in minions_of(pki) \/ keys_in(pki) < MaxKeys
         /\ Leaves(RaetKey_status(pki, m_cache, cache, minion_id, k.pub, k.verify,
                                  auto_reject, auto_sign),
                   [Idle EXCEPT !.op = "status", !.minion_id = minion_id,
                                !.pub = k.pub, !.verify = k.verify,
                                !.auto_reject = auto_reject,
                                !.auto_sign = auto_sign])

\* the caller takes the result; the events have been delivered
Return ==
    /\ call.op # "idle"
    /\ call' = Idle
    /\ events' = <<>>
    /\ pre' = pki
    /\ UNCHANGED <<local_key, lk, transport, opts, pki, m_cache, cache, procs>>

\* accept, reject and delete, by match or of everything, on either backend
Next ==
    \/ Accept(Targets, BadSets)
    \/ Reject(Targets, BadSets)
    \/ Delete(Targets, BadSets, {NoRevoke})
    \/ AcceptAll(BadSets)
    \/ RejectAll(BadSets)
    \/ DeleteAll(BadSets)
    \/ DeleteDen(BadSets)
    \/ Return
Spec == Init /\ [][Next]_vars

\* what the revoke transport raises: nothing, the SaltClientError the code
\* expects, an error of the operating system, or any other exception
RevokeFailures == {"", "SaltClientError", "IOError", "Exception"}

\* delete_key with revoke_auth, the transport failing for m1 or for no key
Revokes ==
    {NoRevoke} \cup {[revoke_auth |-> TRUE, raises |-> k, on |-> {m1}] :
                        k \in RevokeFailures}

\* a master of either transport whose rotate_aes_key is True, False or unset
InitRevoke ==
    /\ transport \in {"zeromq", "raet"}
    /\ opts \in [open_mode : {FALSE}, auto_accept : {FALSE},
                 preserve_minion_cache : {FALSE},
                 rotate_aes_key : {"True", "False", "None"}]
    /\ InitStore

\* delete_key with and without revocation
NextRevoke ==
    \/ Delete(Targets, BadSets, Revokes)
    \/ Return
SpecRevoke == InitRevoke /\ [][NextRevoke]_vars

\* a master whose minion cache directory is absent, or present with a
\* directory per id of which that of mComma may be one that cannot be
\* removed, and whose structured cache is empty or holds an entry per id
InitCache ==
    /\ transport \in {"zeromq", "raet"}
    /\ opts = [open_mode |-> FALSE, auto_accept |-> FALSE,
               preserve_minion_cache |-> FALSE, rotate_aes_key |-> "True"]
    /\ pki \in Stores
    /\ m_cache \in {[isdir |-> FALSE, ids |-> {}, locked |-> {}]}
                   \cup {[isdir |-> TRUE, ids |-> Ids, locked |-> l] :
                            l \in {{}, {mComma}}}
    /\ cache \in {{}, Ids}
    /\ events = <<>>
    /\ pre = pki
    /\ call = Idle
    /\ procs = [s \in Procs |-> IdleProc]
    /\ local_key = NoLocalKey
    /\ lk = IdleLocal

\* the operations that reconcile the caches
NextCache ==
    \/ Reject(OperatorTargets, {{}})
    \/ Delete(OperatorTargets, {{}}, {NoRevoke})
    \/ RejectAll({{}})
    \/ DeleteAll({{}})
    \/ Return
SpecCache == InitCache /\ [][NextCache]_vars

\* the raet backend: classification between the operator's calls
NextStatus ==
    \/ Status
    \/ Accept(OperatorTargets, {{}})
    \/ Reject(OperatorTargets, {{}})
    \/ Delete(OperatorTargets, {{}}, {NoRevoke})
    \/ Return
SpecStatus == InitStatus /\ [][NextStatus]_vars

----------------------------------------------------------------------------
(* RaetKey.status step by step: every file system call is a step of its     *)
(* own, so that calls of several callers and the renames and removals of    *)
(* concurrent accept, reject and delete interleave                          *)

\* a master of the raet transport with open_mode and auto_accept off that
\* holds keys of the ids of ConcIds only
InitConc ==
    /\ transport = "raet"
    /\ opts = [open_mode |-> FALSE, auto_accept |-> FALSE,
               preserve_minion_cache |-> FALSE, rotate_aes_key |-> "True"]
    /\ InitStore
    /\ minions_of(pki) \subseteq ConcIds

\* caller s goes on with local state l; the store becomes p
Step(s, l, p) ==
    /\ procs' = [procs EXCEPT ![s] = l]
    /\ pki' = p
    /\ UNCHANGED <<local_key, lk, transport, opts, events, pre, call>>

\* caller s returns state (or raises) and its locals are dropped; at_return is
\* the accepted file of its id as the store p holds it at that moment
Returned(s, p, state, raised) ==
    [procs[s] EXCEPT !.pc = "done", !.state = state, !.raised = raised,
                     !.work = <<>>, !.auto_reject = FALSE, !.auto_sign = FALSE,
                     !.at_return = IF procs[s].minion_id \in DOMAIN p[ACC]
                                   THEN p[ACC][procs[s].minion_id] ELSE <<>>]

keydata_of(l) == [minion_id |-> l.minion_id, pub |-> l.pub, verify |-> l.verify]

\* status is called; under open_mode it writes the accepted file and returns
St_call(s) ==
    /\ procs[s].pc = "idle"
    /\ \E minion_id \in ConcIds, k \in {keys_of(s)} :
         LET l == [IdleProc EXCEPT !.minion_id = minion_id, !.pub = k.pub,
                                   !.verify = k.verify,
                                   !.had = partitions_of(pki, minion_id) # {}]
         IN IF opts.open_mode
            THEN /\ procs' = [procs EXCEPT ![s] =
                        [l EXCEPT !.pc = "done", !.state = ACC,
                                  !.at_return = dumps(keydata_of(l))]]
                 /\ pki' = write_key(pki, ACC, keydata_of(l))
                 /\ UNCHANGED <<local_key, lk, transport, opts, events, pre, call, m_cache, cache>>
            ELSE /\ Step(s, [l EXCEPT !.pc = "isfile_rej"], pki)
                 /\ UNCHANGED <<m_cache, cache>>

\* if os.path.isfile(rej_path): return self.REJ
St_isfile_rej(s) ==
    /\ procs[s].pc = "isfile_rej"
    /\ IF isfile(pki, REJ, procs[s].minion_id)
       THEN Step(s, Returned(s, pki, REJ, ""), pki)
       ELSE Step(s, [procs[s] EXCEPT !.pc = "isfile_acc"], pki)
    /\ UNCHANGED <<m_cache, cache>>

\* elif os.path.isfile(acc_path)
St_isfile_acc(s) ==
    /\ procs[s].pc = "isfile_acc"
    /\ IF isfile(pki, ACC, procs[s].minion_id)
       THEN Step(s, [procs[s] EXCEPT !.pc = "read_acc"], pki)
       ELSE Step(s, [procs[s] EXCEPT !.pc = "isfile_pre"], pki)
    /\ UNCHANGED <<m_cache, cache>>

\* the accepted file is opened, read and compared; fopen raises IOError when
\* the file has gone
St_read_acc(s) ==
    /\ procs[s].pc = "read_acc"
    /\ IF ~isfile(pki, ACC, procs[s].minion_id)
       THEN Step(s, Returned(s, pki, "", "IOError"), pki)
       ELSE IF same_keys(pki[ACC][procs[s].minion_id], procs[s].pub, procs[s].verify)
       THEN Step(s, Returned(s, pki, ACC, ""), pki)
       ELSE Step(s, Returned(s, pki, REJ, ""), pki)
    /\ UNCHANGED <<m_cache, cache>>

\* elif os.path.isfile(pre_path): the auto policy is asked; otherwise the key
\* is new
St_isfile_pre(s) ==
    /\ procs[s].pc = "isfile_pre"
    /\ IF isfile(pki, PEND, procs[s].minion_id)
       THEN \E auto_reject \in BOOLEAN, auto_sign \in BOOLEAN :
               Step(s, [procs[s] EXCEPT !.pc = "read_pre",
                                        !.auto_reject = auto_reject,
                                        !.auto_sign = auto_sign], pki)
       ELSE Step(s, [procs[s] EXCEPT !.pc = "write_new"], pki)
    /\ UNCHANGED <<m_cache, cache>>

\* the pending file is opened, read and compared
St_read_pre(s) ==
    /\ procs[s].pc = "read_pre"
    /\ IF ~isfile(pki, PEND, procs[s].minion_id)
       THEN Step(s, Returned(s, pki, "", "IOError"), pki)
       ELSE IF same_keys(pki[PEND][procs[s].minion_id], procs[s].pub, procs[s].verify)
       THEN IF procs[s].auto_reject
            THEN Step(s, [procs[s] EXCEPT !.pc = "reject"], pki)
            ELSE IF procs[s].auto_sign
            THEN Step(s, [procs[s] EXCEPT !.pc = "accept"], pki)
            ELSE Step(s, Returned(s, pki, PEND, ""), pki)
       ELSE Step(s, Returned(s, pki, REJ, ""), pki)
    /\ UNCHANGED <<m_cache, cache>>

\* self.accept(minion_id) / self.reject(minion_id): matches = name_match(match)
St_name_match(s) ==
    /\ procs[s].pc \in {"accept", "reject"}
    /\ Step(s, [procs[s] EXCEPT
                   !.pc = IF procs[s].pc = "accept" THEN "accept_move"
                                                    ELSE "reject_move",
                   !.work = Get(name_match(pki, procs[s].minion_id), PEND)], pki)
    /\ UNCHANGED <<m_cache, cache>>

\* one shutil.move of the loop over matches.get(self.PEND, []), or its end
St_move(s) ==
    /\ procs[s].pc \in {"accept_move", "reject_move"}
    /\ LET dst == IF procs[s].pc = "accept_move" THEN ACC ELSE REJ
           w == procs[s].work
       IN IF w = <<>>
          THEN Step(s, [procs[s] EXCEPT
                           !.pc = IF procs[s].pc = "accept_move"
                                  THEN "accept_return" ELSE "reject_cache"], pki)
          ELSE Step(s, [procs[s] EXCEPT !.work = Tail(w)],
                    IF can_move(pki, PEND, Head(w), {})
                    THEN move(pki, PEND, Head(w), dst) ELSE pki)
    /\ UNCHANGED <<m_cache, cache>>

\* self.check_minion_cache() of reject, which may raise
St_check_minion_cache(s) ==
    /\ procs[s].pc = "reject_cache"
    /\ LET k == RaetKey_check_minion_cache(pki, m_cache, cache, FALSE, <<>>)
       IN /\ m_cache' = k.m_cache
          /\ cache' = k.cache
          /\ IF k.raised # ""
             THEN Step(s, Returned(s, pki, "", k.raised), pki)
             ELSE Step(s, [procs[s] EXCEPT !.pc = "reject_return"], pki)

\* accept / reject return name_match(match); status returns ACC / REJ
St_return(s) ==
    /\ procs[s].pc \in {"accept_return", "reject_return"}
    /\ Step(s, Returned(s, pki, IF procs[s].pc = "accept_return" THEN ACC ELSE REJ,
                        ""), pki)
    /\ UNCHANGED <<m_cache, cache>>

\* the key is new: the auto policy is asked and the file is written
St_write_new(s) ==
    /\ procs[s].pc = "write_new"
    /\ \E auto_reject \in BOOLEAN, auto_sign \in BOOLEAN :
         LET w == new_key_state(auto_reject, auto_sign)
             p == write_key(pki, w, keydata_of(procs[s]))
         IN Step(s, Returned(s, p, w, ""), p)
    /\ UNCHANGED <<m_cache, cache>>

\* the caller takes the result
St_done(s) ==
    /\ procs[s].pc = "done"
    /\ Step(s, IdleProc, pki)
    /\ UNCHANGED <<m_cache, cache>>

\* the rename of one key by a concurrent accept (into ACC, out of PEND or
\* REJ) or reject (into REJ, out of PEND or ACC)
Op_move ==
    /\ \E id \in ConcIds, dst \in {ACC, REJ}, src \in {PEND, ACC, REJ} :
         /\ src # dst
         /\ can_move(pki, src, id, {})
         /\ pki' = move(pki, src, id, dst)
    /\ UNCHANGED <<local_key, lk, transport, opts, m_cache, cache, events, pre, call, procs>>

\* the os.remove of one key by a concurrent delete
Op_remove ==
    /\ \E id \in ConcIds, d \in key_dirs :
         /\ can_move(pki, d, id, {})
         /\ pki' = remove(pki, d, id)
    /\ UNCHANGED <<local_key, lk, transport, opts, m_cache, cache, events, pre, call, procs>>

NextConc ==
    \/ \E s \in Procs :
         \/ St_call(s) \/ St_isfile_rej(s) \/ St_isfile_acc(s) \/ St_read_acc(s)
         \/ St_isfile_pre(s) \/ St_read_pre(s) \/ St_name_match(s) \/ St_move(s)
         \/ St_check_minion_cache(s) \/ St_return(s) \/ St_write_new(s)
         \/ St_done(s)
    \/ Op_move
    \/ Op_remove
SpecConc == InitConc /\ [][NextConc]_vars

----------------------------------------------------------------------------
(* Key.accept step by step on the zeromq backend: two callers run            *)
(* accept(match) once each; every rename and every event is a step of its    *)
(* own.  events is the bus, pre the store the callers started from.          *)

\* the patterns the concurrent callers of accept pass
AcceptPatterns == {m1, <<"*">>}

\* a caller that has not called accept yet; hit is the set of ids its
\* name_match found pending
IdleAccept ==
    [pc |-> "idle", match |-> <<>>, work |-> <<>>, key |-> <<>>,
     hit |-> {}, ret |-> <<>>, raised |-> ""]

InitAccept ==
    /\ transport = "zeromq"
    /\ opts = [open_mode |-> FALSE, auto_accept |-> FALSE,
               preserve_minion_cache |-> FALSE, rotate_aes_key |-> "True"]
    /\ pki \in Stores
    /\ minions_of(pki) \subseteq {m1, mStar}
    /\ m_cache = [isdir |-> FALSE, ids |-> {}, locked |-> {}]
    /\ cache = {}
    /\ events = <<>>
    /\ pre = pki
    /\ call = Idle
    /\ procs = [s \in Procs |-> IdleAccept]
    /\ local_key = NoLocalKey
    /\ lk = IdleLocal

\* caller s goes on with local state l; the store becomes p and the bus ev
AcStep(s, l, p, ev) ==
    /\ procs' = [procs EXCEPT ![s] = l]
    /\ pki' = p
    /\ events' = ev
    /\ UNCHANGED <<local_key, lk, transport, opts, m_cache, cache, pre, call>>

\* a position that fires the event whatever the rename did
on_move_always_fire(ok) == "fire"

\* the try block of the loop: the event is fired after shutil.move returned,
\* the except clause goes on with the next key
on_move(ok) == IF ok THEN "fire" ELSE "move"

\* accept(match) is called
Ac_call(s) ==
    /\ procs[s].pc = "idle"
    /\ \E match \in AcceptPatterns :
         AcStep(s, [procs[s] EXCEPT !.pc = "name_match", !.match = match],
                pki, events)

\* matches = self.name_match(match); keydirs = [self.PEND]
Ac_name_match(s) ==
    /\ procs[s].pc = "name_match"
    /\ LET work == Get(name_match(pki, procs[s].match), PEND)
       IN AcStep(s, [procs[s] EXCEPT !.pc = "move", !.work = work,
                                     !.hit = Range(work)], pki, events)

\* one shutil.move of the loop, or the end of the loop
Ac_move(s) ==
    /\ procs[s].pc = "move"
    /\ LET w == procs[s].work
       IN IF w = <<>>
          THEN AcStep(s, [procs[s] EXCEPT !.pc = "return"], pki, events)
          ELSE LET ok == can_move(pki, PEND, Head(w), {})
               IN AcStep(s, [procs[s] EXCEPT !.pc = on_move(ok), !.work = Tail(w),
                                             !.key = Head(w)],
                         IF ok THEN move(pki, PEND, Head(w), ACC) ELSE pki,
                         events)

\* self.event.fire_event(eload, ...)
Ac_fire(s) ==
    /\ procs[s].pc = "fire"
    /\ AcStep(s, [procs[s] EXCEPT !.pc = "move"], pki,
              events \o fire_events("accept", <<procs[s].key>>))

\* return self.name_match(match)
Ac_return(s) ==
    /\ procs[s].pc = "return"
    /\ AcStep(s, [procs[s] EXCEPT !.pc = "done",
                                  !.ret = name_match(pki, procs[s].match)],
              pki, events)

NextAccept ==
    \E s \in Procs :
        Ac_call(s) \/ Ac_name_match(s) \/ Ac_move(s) \/ Ac_fire(s) \/ Ac_return(s)
SpecAccept == InitAccept /\ [][NextAccept]_vars

----------------------------------------------------------------------------
(* RaetKey.write_local step by step, read_local and delete_local *)

\* the umask the master process runs under
ProcessUmasks == {18, 63}

\* a raet master with no local.key, or with one a write_local left
InitLocal ==
    /\ transport = "raet"
    /\ opts = [open_mode |-> FALSE, auto_accept |-> FALSE,
               preserve_minion_cache |-> FALSE, rotate_aes_key |-> "True"]
    /\ pki = [d \in key_dirs |-> <<>>]
    /\ m_cache = [isdir |-> FALSE, ids |-> {}, locked |-> {}]
    /\ cache = {}
    /\ events = <<>>
    /\ pre = pki
    /\ call = Idle
    /\ procs = [s \in Procs |-> IdleProc]
    /\ \E u \in ProcessUmasks :
         \/ /\ local_key = NoLocalKey
            /\ lk = [IdleLocal EXCEPT !.umask = u, !.c_umask = u]
         \/ \E k \in [priv : {"P1"}, sign : {"S1"}] :
              /\ local_key = [exists |-> TRUE, mode |-> S_IRUSR,
                              data |-> dumps_local(k)]
              /\ lk = [IdleLocal EXCEPT !.umask = u, !.c_umask = u, !.wrote = <<k>>]

\* the caller goes on with local state l; local.key becomes f
LkStep(l, f) ==
    /\ lk' = l
    /\ local_key' = f
    /\ UNCHANGED <<transport, opts, pki, m_cache, cache, events, pre, call, procs>>

\* write_local(priv, sign) is called: keydata and path are set
Wl_call ==
    /\ lk.pc = "idle"
    /\ \E priv \in PrivKeys, sign \in SignKeys :
         LkStep([lk EXCEPT !.pc = "umask", !.priv = priv, !.sign = sign,
                           !.ret = <<>>, !.raised = "",
                           !.overwrote = local_key.exists], local_key)

\* c_umask = os.umask(191)
Wl_umask ==
    /\ lk.pc = "umask"
    /\ LkStep([lk EXCEPT !.pc = "exists", !.c_umask = lk.umask,
                         !.umask = write_local_umask], local_key)

\* if os.path.exists(path): os.chmod(path, stat.S_IWUSR | stat.S_IRUSR)
Wl_exists ==
    /\ lk.pc = "exists"
    /\ LkStep([lk EXCEPT !.pc = "open"],
              IF local_key.exists
              THEN [local_key EXCEPT !.mode = bit_or(S_IWUSR, S_IRUSR, 1)]
              ELSE local_key)

\* with salt.utils.fopen(path, 'w+') as fp_: opening a file the owner may not
\* write raises IOError, which leaves write_local
Wl_open ==
    /\ lk.pc = "open"
    /\ IF local_key.exists /\ bit(local_key.mode, S_IWUSR) = 0
       THEN LkStep([lk EXCEPT !.pc = "done", !.raised = "IOError"], local_key)
       ELSE LkStep([lk EXCEPT !.pc = "write"], fopen_w(local_key, lk.umask))

\* fp_.write(self.serial.dumps(keydata)): into the buffer of the file object
Wl_write ==
    /\ lk.pc = "write"
    /\ LkStep([lk EXCEPT !.pc = "chmod",
                         !.buf = dumps_local([priv |-> lk.priv, sign |-> lk.sign])],
              local_key)

\* os.chmod(path, stat.S_IRUSR)
Wl_chmod ==
    /\ lk.pc = "chmod"
    /\ LkStep([lk EXCEPT !.pc = "close"], [local_key EXCEPT !.mode = S_IRUSR])

\* the with block ends: the buffer is flushed and the file closed
Wl_close ==
    /\ lk.pc = "close"
    /\ LkStep([lk EXCEPT !.pc = "restore", !.buf = <<>>],
              [local_key EXCEPT !.data = local_key.data \o lk.buf])

\* os.umask(c_umask); write_local returns
Wl_restore ==
    /\ lk.pc = "restore"
    /\ LkStep([lk EXCEPT !.pc = "done", !.umask = lk.c_umask,
                         !.wrote = <<[priv |-> lk.priv, sign |-> lk.sign]>>],
              local_key)

\* read_local()
Rl_read_local ==
    /\ lk.pc = "idle"
    /\ LkStep([lk EXCEPT !.pc = "read", !.ret = read_local(local_key)], local_key)

\* delete_local()
Dl_delete_local ==
    /\ lk.pc = "idle"
    /\ LkStep([lk EXCEPT !.pc = "deleted", !.wrote = <<>>, !.overwrote = FALSE],
              IF local_key.exists THEN NoLocalKey ELSE local_key)

\* the caller takes the result
Lk_done ==
    /\ lk.pc \in {"done", "read", "deleted"}
    /\ LkStep([lk EXCEPT !.pc = "idle", !.ret = <<>>, !.raised = "",
                         !.priv = "", !.sign = ""], local_key)

NextLocal ==
    \/ Wl_call \/ Wl_umask \/ Wl_exists \/ Wl_open \/ Wl_write \/ Wl_chmod
    \/ Wl_close \/ Wl_restore
    \/ Rl_read_local \/ Dl_delete_local \/ Lk_done
SpecLocal == InitLocal /\ [][NextLocal]_vars

----------------------------------------------------------------------------
(* Properties *)

\* the key pair the last status call presented, as keydata
presented ==
    [minion_id |-> call.minion_id, pub |-> call.pub, verify |-> call.verify]

\* the last operation was status for an id that rested in d alone
status_on(d) ==
    /\ call.op = "status"
    /\ partitions_of(pre, call.minion_id) = {d}

\* the last operation was status for an id that had no file
status_on_new == call.op = "status" /\ partitions_of(pre, call.minion_id) = {}

\* C1: from a store in which every id is in at most one partition, after any
\* sequence of accept, reject and delete (pattern or match_dict, any inclusion
\* flags, either backend) every id is in at most one partition.
C1_MutualExclusion ==
    \A id \in Ids : Cardinality(partitions_of(pki, id)) <= 1

\* C1 witness: a reject of pre-gathered matches with include_accepted has moved
\* a key out of the accepted partition
C1_Witness ==
    /\ call.op = "reject" /\ call.form = "match_dict" /\ call.include
    /\ \E id \in Ids : id \in DOMAIN pre[ACC] /\ id \in DOMAIN pki[REJ]

\* C2 as stated: for an id with a pending record, status with a key pair that
\* differs from the stored one returns rejected, whatever the policy answers.
C2_PendingMismatchRejected_Original ==
    (/\ call.op = "status"
     /\ call.minion_id \in DOMAIN pre[PEND]
     /\ loads(pre[PEND][call.minion_id]) # presented)
    => call.state = REJ

\* C2 amended: with open_mode off, for an id with a pending record, status
\* with a key pair that differs from the stored one returns rejected and never
\* accepted, whatever auto_sign and auto_reject answer, and moves nothing.
C2_PendingMismatchRejected ==
    (/\ call.op = "status"
     /\ ~opts.open_mode
     /\ call.minion_id \in DOMAIN pre[PEND]
     /\ loads(pre[PEND][call.minion_id]) # presented)
    => call.state = REJ /\ call.minion_id \notin DOMAIN pki[ACC]

\* C2 witness: a pending id presents another verify key while auto_sign
\* answers yes, and is rejected
C2_Witness ==
    /\ status_on(PEND) /\ ~opts.open_mode
    /\ call.auto_sign /\ ~call.auto_reject
    /\ loads(pre[PEND][call.minion_id]).pub = call.pub
    /\ loads(pre[PEND][call.minion_id]).verify # call.verify
    /\ call.state = REJ

\* C3: with open_mode off, for an id with an accepted record and no rejected
\* one, status returns accepted when pub and verify both equal the stored
\* ones and rejected when either differs.
C3_AcceptedCompared ==
    (/\ call.op = "status"
     /\ ~opts.open_mode
     /\ call.minion_id \in DOMAIN pre[ACC]
     /\ call.minion_id \notin DOMAIN pre[REJ])
    => call.state = (IF /\ loads(pre[ACC][call.minion_id]).pub = call.pub
                        /\ loads(pre[ACC][call.minion_id]).verify = call.verify
                     THEN ACC ELSE REJ)

\* C3 witness: an accepted id presents its public key with another verify key
\* and is rejected
C3_Witness ==
    /\ status_on(ACC) /\ ~opts.open_mode
    /\ loads(pre[ACC][call.minion_id]).pub = call.pub
    /\ loads(pre[ACC][call.minion_id]).verify # call.verify
    /\ call.state = REJ

\* C5 as stated: for an id with no record for which auto_reject and auto_sign
\* both answer yes, status returns rejected and writes the record to the
\* rejected partition (stated for open_mode and auto_accept off).
C5_RejectWinsForNew_Original ==
    (/\ status_on_new
     /\ ~opts.open_mode /\ ~opts.auto_accept
     /\ call.auto_reject /\ call.auto_sign)
    => call.state = REJ /\ call.minion_id \in DOMAIN pki[REJ]

\* C6: with open_mode off, for an id with no record status places the key by
\* auto_accept, then auto_sign, then auto_reject, then pending, writes the
\* presented keys into that partition and into no other, and returns it.
C6_NewKeyOrder ==
    (status_on_new /\ ~opts.open_mode)
    => LET w == IF opts.auto_accept THEN ACC
                ELSE IF call.auto_sign THEN ACC
                ELSE IF call.auto_reject THEN REJ
                ELSE PEND
       IN /\ call.state = w
          /\ partitions_of(pki, call.minion_id) = {w}
          /\ loads(pki[w][call.minion_id]) = presented

\* C6 witness: a new id for which only auto_reject answers yes is written to
\* the rejected partition
C6_Witness ==
    /\ status_on_new /\ ~opts.open_mode /\ ~opts.auto_accept
    /\ call.auto_reject /\ ~call.auto_sign
    /\ call.state = REJ
    /\ call.minion_id \in DOMAIN pki[REJ]

\* C7 as stated: for a pending id that presents the stored keys, auto_reject
\* moves the record to rejected and returns rejected (also when auto_sign
\* answers yes); otherwise auto_sign moves it to accepted and returns accepted;
\* otherwise it stays pending and pending is returned.
C7_PendingPolicy_Original ==
    (/\ status_on(PEND)
     /\ ~opts.open_mode
     /\ loads(pre[PEND][call.minion_id]) = presented)
    => IF call.auto_reject
       THEN call.state = REJ /\ partitions_of(pki, call.minion_id) = {REJ}
       ELSE IF call.auto_sign
       THEN call.state = ACC /\ partitions_of(pki, call.minion_id) = {ACC}
       ELSE call.state = PEND /\ pki = pre

\* C8: with open_mode off, for an id with a rejected record status returns
\* rejected for every key pair and every auto_sign / auto_accept setting, and
\* leaves the store unchanged.
C8_RejectedStays ==
    (/\ call.op = "status"
     /\ ~opts.open_mode
     /\ call.minion_id \in DOMAIN pre[REJ])
    => call.state = REJ /\ pki = pre

\* C8 witness: a rejected id presents its stored keys under auto_accept and
\* auto_sign and is still rejected
C8_Witness ==
    /\ status_on(REJ) /\ ~opts.open_mode /\ opts.auto_accept
    /\ call.auto_sign /\ ~call.auto_reject
    /\ loads(pre[REJ][call.minion_id]) = presented
    /\ call.state = REJ

\* C9: with open_mode on, status returns accepted for every id and key pair,
\* and afterwards the accepted record of the id holds exactly the presented
\* keys, whatever record was there.
C9_OpenMode ==
    (call.op = "status" /\ opts.open_mode)
    => /\ call.state = ACC
       /\ call.minion_id \in DOMAIN pki[ACC]
       /\ loads(pki[ACC][call.minion_id]) = presented

\* C9 witness: under open_mode an accepted record with other keys has been
\* overwritten
C9_Witness ==
    /\ call.op = "status" /\ opts.open_mode
    /\ call.minion_id \in DOMAIN pre[ACC]
    /\ loads(pre[ACC][call.minion_id]) # presented
    /\ loads(pki[ACC][call.minion_id]) = presented

\* C10 as stated: on the raet backend, after any sequence of status calls in
\* any mode interleaved with accept, reject and delete, every id is in at most
\* one partition.
C10_MutualExclusionStatus_Original ==
    \A id \in Ids : \A d, e \in key_dirs :
        (id \in DOMAIN pki[d] /\ id \in DOMAIN pki[e]) => d = e

\* C4 as stated: with open_mode off, under any interleaving of status calls
\* with concurrent accept, reject, delete and other status calls, whenever
\* status(id, P) returns accepted for an id that had a record when the call
\* began, the accepted record of id at the moment the call returns carries P.
C4_NoMismatchAccepted_Original ==
    \A s \in Procs :
        (/\ procs[s].pc = "done" /\ procs[s].state = ACC /\ procs[s].had
         /\ procs[s].at_return # <<>>)
        => procs[s].at_return = dumps(keydata_of(procs[s]))

\* the last operation resolved a comma list of two globs and returned
or_call ==
    /\ call.op \in {"accept", "reject", "delete_key"}
    /\ call.form = "match"
    /\ call.raised = ""
    /\ Len(split(call.match)) = 2

\* C11 as stated: name_match("a,b") returns, for each state, exactly the union
\* of the ids name_match(a) and name_match(b) return for that state, each id
\* listed once, also an id that matches both a and b.
C11_OrMatching_Original ==
    or_call =>
        LET a == split(call.match)[1]
            b == split(call.match)[2]
            U(d) == Range(Get(name_match(pki, a), d))
                    \cup Range(Get(name_match(pki, b), d))
        IN /\ DOMAIN call.ret = {d \in key_dirs : U(d) # {}}
           /\ \A d \in DOMAIN call.ret : call.ret[d] = isorted(U(d))

\* the name holds no character that fnmatch or the comma split of name_match
\* treats specially
plain(name) == Range(name) \cap {"*", "?", "[", ","} = {}

\* C12 as stated: accept(id) on an id that rests in the accepted partition
\* leaves every partition unchanged, returns the id under accepted and fires
\* no event.
C12_AcceptIdempotent_Original ==
    (/\ call.op = "accept" /\ call.form = "match"
     /\ call.match \in DOMAIN pre[ACC])
    => /\ pki = pre
       /\ events = <<>>
       /\ call.match \in Range(Get(call.ret, ACC))

\* C12 amended: accept(id) on an id without glob characters or commas that
\* rests in the accepted partition leaves every partition unchanged, returns
\* the id under accepted and fires no event; and no operation fires an event
\* for an id whose partition it did not change.
C12_AcceptIdempotent ==
    /\ (/\ call.op = "accept" /\ call.form = "match"
        /\ plain(call.match)
        /\ call.match \in DOMAIN pre[ACC])
       => /\ pki = pre
          /\ events = <<>>
          /\ call.match \in Range(Get(call.ret, ACC))
    /\ \A i \in 1..Len(events) :
          partitions_of(pre, events[i].id) # partitions_of(pki, events[i].id)

\* C12 witness: on the zeromq backend accept("m1") with every partition
\* included ran on an accepted m1 while another key was pending, and nothing
\* moved
C12_Witness ==
    /\ transport = "zeromq"
    /\ call.op = "accept" /\ call.form = "match" /\ call.match = m1
    /\ call.include /\ call.include_denied /\ call.bad = {}
    /\ m1 \in DOMAIN pre[ACC]
    /\ DOMAIN pre[PEND] # {}
    /\ pki = pre /\ events = <<>>

\* the last operation was accept(pattern) with its default flags and no
\* storage failure
accept_pattern ==
    /\ call.op = "accept" /\ call.form = "match"
    /\ ~call.include /\ ~call.include_denied
    /\ call.bad = {}

\* C13 as stated: accept(pattern) with no storage failure moves every pending
\* id the pattern matches into accepted, leaves none of them pending, and fires
\* exactly one accept event per moved id, in id-sorted order, on either
\* backend.
C13_AcceptMovesPending_Original ==
    accept_pattern =>
        LET hit == Range(Get(name_match(pre, call.match), PEND))
        IN /\ \A id \in hit : id \in DOMAIN pki[ACC] /\ id \notin DOMAIN pki[PEND]
           /\ events = fire_events("accept", isorted(hit))

\* the 'act' of the events the last operation fires
act_of_call ==
    CASE call.op \in {"accept", "accept_all"} -> "accept"
      [] call.op \in {"reject", "reject_all"} -> "reject"
      [] call.op \in {"delete_key", "delete_all"} -> "delete"
      [] OTHER -> "none"

\* the last operation took id out of a partition (and, for accept and reject,
\* into the destination) and the storage did not refuse it
mutated(id) ==
    /\ id \notin call.bad
    /\ \E src \in key_dirs :
         /\ id \in DOMAIN pre[src] /\ id \notin DOMAIN pki[src]
         /\ act_of_call = "accept" => (src # ACC /\ id \in DOMAIN pki[ACC])
         /\ act_of_call = "reject" => (src # REJ /\ id \in DOMAIN pki[REJ])

\* C14: every event {result, act, id} an operation fires carries result true
\* and the operation's action, and its id was moved (accept, reject) or
\* removed (delete) by that operation; no id whose storage operation failed or
\* was not attempted has an event, and no id has two.
C14_EventsNotSpeculative ==
    /\ \A i \in 1..Len(events) :
          /\ events[i].result = TRUE
          /\ events[i].act = act_of_call
          /\ mutated(events[i].id)
    /\ \A i, j \in 1..Len(events) : events[i].id = events[j].id => i = j

\* C14 witness: a delete matched two keys, the storage refused m1, and the
\* only event is the one of the key that was removed
C14_Witness ==
    /\ call.op = "delete_key" /\ call.form = "match" /\ call.bad = {m1}
    /\ m1 \in minions_of(pre) /\ m1 \in minions_of(pki)
    /\ Cardinality(minions_of(pre)) = 2
    /\ Len(events) = 1 /\ events[1].id # m1
    /\ events[1].id \notin minions_of(pki)

\* C15 as stated: every record moved or removed by accept, reject or delete
\* (accept_all, reject_all and delete_all included), on either backend,
\* results in exactly one event carrying result true, the action and the id.
C15_EventPerMutation_Original ==
    \A id \in Ids :
        mutated(id) =>
            Cardinality({i \in 1..Len(events) :
                events[i] = [result |-> TRUE, act |-> act_of_call, id |-> id]}) = 1

\* the last operation was a batch accept, reject or delete
batch_call ==
    /\ call.op \in {"accept", "reject", "delete_key"}
    /\ call.form \in {"match", "match_dict"}

\* the partitions the last batch operation takes keys from, and the keys it
\* matched there
batch_sources ==
    LET matches == resolve(pre, call.form, call.match, call.match_dict)
    IN CASE call.op = "accept" ->
                Range(keydirs_of(PEND, call.include, REJ, call.include_denied))
         [] call.op = "reject" ->
                Range(keydirs_of(PEND, call.include, ACC, call.include_denied))
         [] OTHER -> DOMAIN matches

batch_matched(d) ==
    Range(Get(resolve(pre, call.form, call.match, call.match_dict), d))

accept_events(id) ==
    {i \in 1..Len(events) :
        events[i] = [result |-> TRUE, act |-> "accept", id |-> id]}

\* C17: when two concurrent accepts found the same id pending, under every
\* interleaving neither raises, and once both have returned the id is in the
\* accepted partition and in no other and exactly one accept event has been
\* fired for it; at no time are there two.
C17_ConcurrentAccepts ==
    /\ \A s \in Procs : procs[s].raised = ""
    /\ \A id \in Ids : Cardinality(accept_events(id)) <= 1
    /\ \A id \in Ids :
          (\A s \in Procs : procs[s].pc = "done" /\ id \in procs[s].hit)
          => /\ partitions_of(pki, id) = {ACC}
             /\ Cardinality(accept_events(id)) = 1
             /\ Len(events) = Cardinality(UNION {procs[s].hit : s \in Procs})

\* C17 witness: both callers found m1 pending, both have returned, and the
\* caller whose rename failed returned without an event of its own
C17_Witness ==
    /\ \A s \in Procs : procs[s].pc = "done" /\ m1 \in procs[s].hit
    /\ m1 \in DOMAIN pki[ACC]
    /\ Cardinality(accept_events(m1)) = 1

\* C18 as stated: after delete_all() with no storage failure every partition
\* is empty and, unless every cache is to be preserved, no minion cache
\* directory and no entry of the structured cache remains.
C18_TotalDeletion_Original ==
    (call.op = "delete_all" /\ call.bad = {})
    => /\ minions_of(pki) = {}
       /\ ~opts.preserve_minion_cache => (m_cache.ids = {} /\ cache = {})

\* C19: read_local() after write_local(P, S) returns exactly the mapping of
\* priv to P and sign to S, also when the write found a local.key; read_local()
\* with no local.key returns the empty mapping.
C19_LocalRoundTrip ==
    /\ lk.pc = "done" => lk.raised = ""
    /\ lk.pc = "read" =>
          lk.ret = (IF lk.wrote = <<>> THEN <<>>
                    ELSE [priv |-> lk.wrote[1].priv, sign |-> lk.wrote[1].sign])

\* C19 witness: a write_local over an existing local.key that held other keys
\* has been read back
C19_Witness ==
    /\ lk.pc = "read" /\ lk.overwrote
    /\ lk.ret = [priv |-> "P2", sign |-> "S2"]

\* C20: at every step of write_local and after it, first creation or
\* overwrite, local.key is not readable by group or others; when write_local
\* has completed, its mode is read permission for the owner and nothing else.
C20_LocalKeyOwnerOnly ==
    /\ local_key.exists =>
          (bit(local_key.mode, 32) = 0 /\ bit(local_key.mode, 4) = 0)
    /\ (lk.pc = "done" /\ lk.raised = "") =>
          (local_key.exists /\ local_key.mode = S_IRUSR)

\* C20 witness: write_local has just created local.key under a process umask
\* that leaves new files readable by everyone, and has not yet reached its
\* chmod
C20_Witness ==
    /\ lk.pc = "write" /\ ~lk.overwrote /\ lk.c_umask = 18
    /\ local_key.exists /\ local_key.mode = S_IRUSR

----------------------------------------------------------------------------
(* Construction: Key.__init__ and RaetKey.__init__ step by step.  Each       *)
(* caller constructs a key store from opts whose __role is role and, once    *)
(* it holds one, operates on the store.                                      *)

\* salt.utils.kinds.APPL_KINDS
APPL_KINDS == {"master", "minion", "syndic", "caller"}

\* the values of opts['__role'] callers pass; "" is a missing one
Roles == {"master", "minion", "", "monitor"}

\* a check that lets every kind pass
valid_kind_any(kind) == TRUE

\* kind in salt.utils.kinds.APPL_KINDS
valid_kind(kind) == kind \in APPL_KINDS

\* a caller that has not constructed anything; event tells whether its event
\* channel is open, used whether it has operated on the store
NoKey(role) ==
    [pc |-> "none", role |-> role, event |-> FALSE, used |-> FALSE,
     raised |-> ""]

InitKey ==
    /\ transport \in {"zeromq", "raet"}
    /\ opts = [open_mode |-> FALSE, auto_accept |-> FALSE,
               preserve_minion_cache |-> FALSE, rotate_aes_key |-> "True"]
    /\ pki \in Stores
    /\ m_cache = [isdir |-> FALSE, ids |-> {}, locked |-> {}]
    /\ cache = {}
    /\ events = <<>>
    /\ pre = pki
    /\ call = Idle
    /\ procs \in [Procs -> {NoKey(r) : r \in Roles}]
    /\ local_key = NoLocalKey
    /\ lk = IdleLocal

\* kind = self.opts.get('__role', ''); an invalid kind raises ValueError
Ki_check_kind(s) ==
    /\ procs[s].pc = "none"
    /\ AcStep(s, IF valid_kind(procs[s].role)
                 THEN [procs[s] EXCEPT !.pc = "get_event"]
                 ELSE [procs[s] EXCEPT !.pc = "raised", !.raised = "ValueError"],
              pki, events)

\* self.event = salt.utils.event.get_event(kind, ...); RaetKey.__init__ goes
\* on with auto_key and serial
Ki_get_event(s) ==
    /\ procs[s].pc = "get_event"
    /\ AcStep(s, [procs[s] EXCEPT !.event = TRUE,
                                  !.pc = IF transport = "raet" THEN "auto_key"
                                         ELSE "ready"],
              pki, events)

\* self.auto_key = AutoKey(self.opts); self.serial = Serial(self.opts)
Ki_auto_key(s) ==
    /\ procs[s].pc = "auto_key"
    /\ AcStep(s, [procs[s] EXCEPT !.pc = "ready"], pki, events)

\* a method of the constructed object is called: accept_all
Ki_accept_all(s) ==
    /\ procs[s].pc = "ready"
    /\ LET o == IF transport = "raet" THEN RaetKey_accept_all(pki, m_cache, cache, {})
                ELSE Key_accept_all(pki, m_cache, cache, {})
       IN AcStep(s, [procs[s] EXCEPT !.used = TRUE], o.pki, o.events)

NextKey ==
    \E s \in Procs :
        \/ Ki_check_kind(s)
        \/ Ki_get_event(s)
        \/ Ki_auto_key(s)
        \/ Ki_accept_all(s)
SpecKey == InitKey /\ [][NextKey]_vars

----------------------------------------------------------------------------
(* KeyCLI.run for accept, reject and delete, step by step: the matching      *)
(* keys are displayed, the operator is asked, the command runs.  Meanwhile   *)
(* minions submit keys, which the master files as pending.                   *)

\* self.opts[cmd] of the command line
CliPatterns == {<<"*">>, m1}

\* the command line before run(), which is called once; shown holds the ids displayed, mutated the
\* ids whose key the command moved or removed
IdleCLI ==
    [pc |-> "idle", cmd |-> "", match |-> <<>>, include |-> FALSE,
     include_denied |-> FALSE, yes |-> FALSE, shown |-> {}, mutated |-> {},
     raised |-> ""]

InitCLI ==
    /\ transport \in {"zeromq", "raet"}
    /\ opts = [open_mode |-> FALSE, auto_accept |-> FALSE,
               preserve_minion_cache |-> FALSE, rotate_aes_key |-> "True"]
    /\ pki \in Stores
    /\ m_cache = [isdir |-> FALSE, ids |-> {}, locked |-> {}]
    /\ cache = {}
    /\ events = <<>>
    /\ pre = pki
    /\ call = Idle
    /\ procs = [cli |-> IdleCLI]
    /\ local_key = NoLocalKey
    /\ lk = IdleLocal

\* the command line goes on with locals l; the handler it called leaves o
CliStep(l, o) ==
    /\ procs' = [procs EXCEPT !.cli = l]
    /\ pki' = o.pki
    /\ m_cache' = o.m_cache
    /\ cache' = o.cache
    /\ events' = o.events
    /\ UNCHANGED <<local_key, lk, transport, opts, pre, call>>

\* KeyCLI._filter_ret(cmd, ret)
KeyCLI_filter_ret(cmd, ret, include_accepted, include_rejected, include_denied) ==
    IF cmd = "delete" THEN ret
    ELSE [d \in {e \in DOMAIN ret :
                    \/ e = PEND
                    \/ e = ACC /\ include_accepted /\ ret[e] # <<>>
                    \/ e = REJ /\ include_rejected /\ ret[e] # <<>>
                    \/ e = DEN /\ include_denied /\ ret[e] # <<>>} |-> ret[d]]

\* the ids a mapping of partitions to keys names
ids_of(ret) == UNION {{ret[d][i] : i \in 1..Len(ret[d])} : d \in DOMAIN ret}

\* self._run_cmd(cmd): the handler is called with the arguments opts holds,
\* match being the pattern and match_dict None
KeyCLI_run_cmd(l, p, mc, c) ==
    IF l.cmd = "accept"
    THEN IF transport = "raet"
         THEN RaetKey_accept(p, mc, c, "match", l.match, <<>>, l.include,
                             l.include_denied, {})
         ELSE Key_accept(p, mc, c, "match", l.match, <<>>, l.include,
                         l.include_denied, {})
    ELSE IF l.cmd = "reject"
    THEN IF transport = "raet"
         THEN RaetKey_reject(p, mc, c, "match", l.match, <<>>, l.include,
                             l.include_denied, {})
         ELSE Key_reject(p, mc, c, "match", l.match, <<>>, l.include,
                         l.include_denied, {})
    ELSE IF transport = "raet"
         THEN RaetKey_delete_key(p, mc, c, "match", l.match, <<>>, FALSE, {},
                                 NoRevoke)
         ELSE Key_delete_key(p, mc, c, "match", l.match, <<>>, FALSE, {},
                             NoRevoke)

\* run(): _update_opts, ret = self._run_cmd('name_match'), _filter_ret and the
\* display; nothing matched ends the run, --yes skips the question
Cli_display ==
    /\ procs.cli.pc = "idle"
    /\ \E cmd \in {"accept", "reject", "delete"}, match \in CliPatterns,
          include \in BOOLEAN, include_denied \in BOOLEAN, yes \in BOOLEAN :
         LET ret == KeyCLI_filter_ret(cmd, name_match(pki, match),
                                      cmd = "reject" /\ include,
                                      cmd = "accept" /\ include, include_denied)
             l == [IdleCLI EXCEPT !.cmd = cmd, !.match = match,
                                  !.include = include,
                                  !.include_denied = include_denied,
                                  !.yes = yes, !.shown = ids_of(ret)]
         IN CliStep([l EXCEPT !.pc = IF DOMAIN ret = {} THEN "done"
                                     ELSE IF yes THEN "run_cmd" ELSE "input"],
                    [pki |-> pki, m_cache |-> m_cache, cache |-> cache,
                     events |-> events])

\* veri = input('Proceed? ...'); an empty answer is n for delete, y otherwise
Cli_input ==
    /\ procs.cli.pc = "input"
    /\ \E answer \in {"", "y", "n"} :
         LET veri == IF answer # "" THEN answer
                     ELSE IF procs.cli.cmd = "delete" THEN "n" ELSE "y"
         IN CliStep([procs.cli EXCEPT !.pc = IF veri = "y" THEN "run_cmd"
                                             ELSE "done"],
                    [pki |-> pki, m_cache |-> m_cache, cache |-> cache,
                     events |-> events])

\* ret = self._run_cmd(cmd)
Cli_run_cmd ==
    /\ procs.cli.pc = "run_cmd"
    /\ \E o \in {KeyCLI_run_cmd(procs.cli, pki, m_cache, cache)} :
          CliStep([procs.cli EXCEPT
                       !.pc = "done", !.raised = o.raised,
                       !.mutated = {id \in Ids : partitions_of(o.pki, id)
                                                 # partitions_of(pki, id)}],
                  o)

\* the master files the key of a minion it has no key of as pending
Ext_add ==
    /\ keys_in(pki) < MaxKeys
    /\ \E id \in Ids \ minions_of(pki) :
         pki' = [pki EXCEPT ![PEND] = Put(pki[PEND], id, initial_content(id))]
    /\ UNCHANGED <<local_key, lk, transport, opts, m_cache, cache, events, pre,
                   call, procs>>

NextCLI ==
    \/ Cli_display
    \/ Cli_input
    \/ Cli_run_cmd
    \/ Ext_add
SpecCLI == InitCLI /\ [][NextCLI]_vars

----------------------------------------------------------------------------
(* Results, source partitions, revocation and the minion caches *)

\* C21: what accept, reject and delete_key return for a pre-gathered mapping
\* is dict_match of that mapping on the store they leave; it lists an id
\* under a partition only if the id rests there now, and lists it once.
C21_DictMatchRevalidates_Original ==
    (call.op \in {"accept", "reject", "delete_key"} /\ call.form = "match_dict"
     /\ call.raised = "") =>
        /\ call.ret = dict_match(pki, call.match_dict)
        /\ \A d \in DOMAIN call.ret :
              /\ Range(call.ret[d]) \subseteq DOMAIN pki[d]
              /\ \A i, j \in 1..Len(call.ret[d]) :
                    call.ret[d][i] = call.ret[d][j] => i = j

\* C22: the value accept, reject and delete_key return is name_match of the
\* pattern, or dict_match of the pre-matched mapping, evaluated on the store
\* as the operation leaves it.
C22_ReturnValue ==
    (call.op \in {"accept", "reject", "delete_key"} /\ call.raised = "") =>
        call.ret = (IF call.form = "match" THEN name_match(pki, call.match)
                    ELSE dict_match(pki, call.match_dict))

\* C22 witness: an accept by pattern has moved a pending id and returns it
\* under the accepted partition
C22_Witness ==
    /\ call.op = "accept" /\ call.form = "match" /\ call.raised = ""
    /\ m1 \in DOMAIN pre[PEND] /\ m1 \in DOMAIN pki[ACC]
    /\ ACC \in DOMAIN call.ret /\ m1 \in Range(call.ret[ACC])
    /\ PEND \notin DOMAIN call.ret

\* C23: accept moves ids only out of Pending, Rejected when include_rejected
\* is set and Denied when include_denied is set; reject only out of Pending,
\* Accepted when include_accepted is set and Denied when include_denied is
\* set.  An id resting in any other partition stays there with the same
\* payload, whether or not the pattern or the match_dict names it.
C23_SourcePartitions ==
    call.op \in {"accept", "reject"} =>
        LET included == IF call.op = "accept" THEN REJ ELSE ACC
            sources == {PEND} \cup (IF call.include THEN {included} ELSE {})
                              \cup (IF call.include_denied THEN {DEN} ELSE {})
        IN \A d \in key_dirs \ sources :
               \A id \in DOMAIN pre[d] :
                   id \in DOMAIN pki[d] /\ pki[d][id] = pre[d][id]

\* C23 witness: reject of everything without include_accepted has moved the
\* pending id and left the accepted one, which the pattern matches too
C23_Witness ==
    /\ call.op = "reject" /\ call.form = "match" /\ call.match = <<"*">>
    /\ ~call.include /\ call.raised = ""
    /\ m1 \in DOMAIN pre[ACC] /\ m1 \in DOMAIN pki[ACC]
    /\ mStar \in DOMAIN pre[PEND] /\ mStar \in DOMAIN pki[REJ]

\* the (status, key) pairs delete_key works through, as matched when it began
delete_work ==
    LET matches == resolve(pre, call.form, call.match, call.match_dict)
    IN work_list(matches, iterkeys(DOMAIN matches))

\* C24: in delete_key with revoke_auth, a revoke command is issued for every
\* matched id whether or not its file can be removed, and no failure of the
\* revoke transport, of whatever kind, keeps the record of an id from being
\* removed.
C24_RevokeNeverGates_Original ==
    (call.op = "delete_key" /\ call.revoke.revoke_auth
     /\ opts.rotate_aes_key # "False") =>
        \A e \in Range(delete_work) :
            /\ e[2] \in Range(call.revoked)
            /\ (e[2] \in DOMAIN pre[e[1]] /\ e[2] \notin call.bad) =>
                   e[2] \notin DOMAIN pki[e[1]]

\* C25: delete_key with revoke_auth while rotate_aes_key is False prints a
\* warning for each matched id, sends no revoke command, and still removes
\* the record of every matched id.
C25_RotationDisabled ==
    (call.op = "delete_key" /\ call.revoke.revoke_auth
     /\ opts.rotate_aes_key = "False") =>
        /\ call.raised = ""
        /\ call.revoked = <<>>
        /\ Len(call.warned) = Len(delete_work)
        /\ \A e \in Range(delete_work) :
              /\ e[2] \in Range(call.warned)
              /\ (e[2] \in DOMAIN pre[e[1]] /\ e[2] \notin call.bad) =>
                     e[2] \notin DOMAIN pki[e[1]]

\* C25 witness: with rotation disabled and a revoke transport that would
\* fail, delete_key with revoke_auth has warned about m1 and removed it
C25_Witness ==
    /\ call.op = "delete_key" /\ call.revoke.revoke_auth
    /\ call.revoke.raises = "Exception" /\ opts.rotate_aes_key = "False"
    /\ m1 \in minions_of(pre) /\ m1 \notin minions_of(pki)
    /\ call.warned = <<m1>> /\ call.revoked = <<>>

\* the operations that end with check_minion_cache
reconciling == {"reject", "reject_all", "delete_key", "delete_all"}

\* the ids check_minion_cache was given to preserve by the call that ran it
preserve_ids ==
    IF call.op = "delete_key" /\ (transport = "raet" \/ call.preserve_minions)
    THEN Range(Get(resolve(pre, call.form, call.match, call.match_dict), "minions"))
    ELSE {}

\* C26: when check_minion_cache(preserve_ids) has completed, no directory of
\* the minion cache and no entry of the structured cache remains for an id
\* that is neither in the Accepted partition nor in preserve_ids; after reject
\* has moved an id out of Accepted its cached state is gone.
C26_PurgesUntrusted_Original ==
    (call.op \in reconciling /\ call.checks = 1 /\ call.raised = ""
     /\ ~opts.preserve_minion_cache) =>
        (m_cache.ids \cup cache) \subseteq (DOMAIN pki[ACC] \cup preserve_ids)

\* C27: check_minion_cache never removes the cache directory or the
\* structured-cache entry of an id that is in the Accepted partition when it
\* runs or that it was told to preserve; delete_key with preserve_minions
\* keeps the cached state of the accepted ids it deletes.
C27_PreservesTrusted_Original ==
    [][(call.op = "idle" /\ call'.op \in reconciling /\ call'.raised = "") =>
          LET kept == DOMAIN pki'[ACC]
                      \cup (IF call'.op = "delete_key" /\ call'.preserve_minions
                            THEN DOMAIN pki[ACC] \ DOMAIN pki'[ACC] ELSE {})
          IN \A id \in kept : /\ id \in cache => id \in cache'
                              /\ id \in m_cache.ids => id \in m_cache'.ids]_vars

\* C28: the two purges of check_minion_cache are independent: the structured
\* cache is purged of the ids that have no key and are not to be preserved
\* even when removing a cache directory fails or the cache directory is
\* absent.
C28_PurgesIndependent_Original ==
    (call.op \in reconciling /\ call.checks = 1 /\ call.raised # "TypeError") =>
        cache \subseteq (minions_of(pki) \cup preserve_ids)

\* C29: every reject, reject_all, delete_key and delete_all, on either
\* backend and whether or not any id matched or was moved, runs
\* check_minion_cache once, after its moves or removals and before it
\* returns: when it has returned, no cache is left for an id that has no key
\* in the store as the call leaves it and was not to be preserved, unless
\* every cache is to be preserved or the cache directory is absent.
C29_AlwaysReconciles_Original ==
    call.op \in reconciling =>
        /\ call.checks = 1
        /\ (call.raised = "" /\ m_cache.isdir
            /\ ~(opts.preserve_minion_cache /\ preserve_ids # {})) =>
               (m_cache.ids \cup cache) \subseteq (minions_of(pki) \cup preserve_ids)

\* what the handler of the raet backend leaves when it is given the store,
\* the caches and the arguments of the call c
RaetKey_does(c) ==
    IF c.op = "accept"
    THEN RaetKey_accept(pki, m_cache, cache, c.form, c.match, c.match_dict,
                        c.include, c.include_denied, c.bad)
    ELSE IF c.op = "reject"
    THEN RaetKey_reject(pki, m_cache, cache, c.form, c.match, c.match_dict,
                        c.include, c.include_denied, c.bad)
    ELSE RaetKey_delete_key(pki, m_cache, cache, c.form, c.match, c.match_dict,
                            c.preserve_minions, c.bad, c.revoke)

\* C30: from the same ids in Pending, Accepted and Rejected, the same accept,
\* reject or delete without include_denied leaves the same partition
\* contents, returns the same result up to the names of the partitions, and
\* produces the same events on the simple backend as on the richer one.
C30_BackendEquivalence_Original ==
    [][(call.op = "idle" /\ call'.op \in {"accept", "reject", "delete_key"}
        /\ transport = "zeromq" /\ DOMAIN pki[DEN] = {}
        /\ ~call'.include_denied) =>
          LET o == RaetKey_does(call')
          IN /\ o.pki = pki'
             /\ o.raised = call'.raised
             /\ o.ret = call'.ret
             /\ o.events = events']_vars

----------------------------------------------------------------------------
(* Acting on nothing, the preserve-all option, delete_den, classification   *)
(* and its frame, the confirmation of the command line, payloads            *)

\* the call of accept / reject / delete_key was given a pattern or a
\* pre-gathered mapping that matched no id of the store
matched_nothing ==
    /\ call.op \in {"accept", "reject", "delete_key"}
    /\ call.form \in {"match", "match_dict"}
    /\ call.form = "match" => name_match(pre, call.match) = <<>>
    /\ call.form = "match_dict" => dict_match(pre, call.match_dict) = <<>>

C33_PreserveAll_Original ==
    [][(call.op = "idle" /\ call'.op \in reconciling /\ transport = "zeromq"
        /\ opts.preserve_minion_cache) =>
          (cache' = cache /\ m_cache' = m_cache)]_vars

\* C34: delete_den of the simple backend completes without raising for every
\* content of the store, removes every id of the Denied partition that the
\* storage lets go, emits one delete event per id removed, leaves Pending,
\* Accepted and Rejected as they were, and returns the listing of the keys.
C34_DeleteDen_Original ==
    call.op = "delete_den" =>
        /\ call.raised = ""
        /\ DOMAIN pki[DEN] = DOMAIN pre[DEN] \cap call.bad
        /\ events = fire_events("delete",
                                isorted(DOMAIN pre[DEN] \ call.bad))
        /\ \A d \in {PEND, ACC, REJ} : pki[d] = pre[d]
        /\ call.ret = list_keys(pki)

\* C35: status(id, keys) never changes the partition or the payload of a
\* record of another id, whatever characters id contains, also in the
\* pending branch where it calls accept(id) or reject(id).
C35_StatusFrame_Original ==
    call.op = "status" =>
        \A d \in key_dirs : \A id \in DOMAIN pre[d] \ {call.minion_id} :
            id \in DOMAIN pki[d] /\ pki[d][id] = pre[d][id]

status_mismatch ==
    LET id == call.minion_id
    IN /\ id \notin DOMAIN pre[REJ]
       /\ \/ /\ id \in DOMAIN pre[ACC]
             /\ ~same_keys(pre[ACC][id], call.pub, call.verify)
          \/ /\ id \notin DOMAIN pre[ACC] /\ id \in DOMAIN pre[PEND]
             /\ ~same_keys(pre[PEND][id], call.pub, call.verify)

C38_PayloadPreserved ==
    \A d \in key_dirs : \A id \in DOMAIN pki[d] :
        /\ \E e \in key_dirs : id \in DOMAIN pre[e] /\ pre[e][id] = pki[d][id]
        /\ pki[d][id] = initial_content(id)

\* C38 witness: an id that was rejected has been accepted with
\* include_rejected and carries the payload it had
C38_Witness ==
    /\ call.op = "accept" /\ call.include
    /\ m1 \in DOMAIN pre[REJ] /\ m1 \in DOMAIN pki[ACC]
    /\ pki[ACC][m1] = pre[REJ][m1] /\ pki[ACC][m1] # <<>>

\* C40: on the raet backend reject, reject_all and delete_all, when the
\* storage refuses no move or removal, complete without raising and return
\* the matches or the listing of the store they leave, also when the
\* structured cache holds an entry for an id that is in no partition.
C40_RaetCompletes_Original ==
    (transport = "raet" /\ call.op \in {"reject", "reject_all", "delete_all"}
     /\ call.bad = {}) =>
        /\ call.raised = ""
        /\ call.ret = (IF call.op # "reject" THEN list_keys(pki)
                       ELSE IF call.form = "match" THEN name_match(pki, call.match)
                       ELSE dict_match(pki, call.match_dict))

\* C31: constructing a key store of either backend with a missing or invalid
\* application kind fails with ValueError before an event channel is opened
\* and before any operation on the store; the caller ends with the error.
C31_InvalidKindFatal ==
    \A s \in Procs :
        procs[s].role \notin APPL_KINDS =>
            /\ ~procs[s].event /\ ~procs[s].used
            /\ procs[s].pc \in {"none", "raised"}
            /\ procs[s].pc = "raised" => procs[s].raised = "ValueError"

\* C31 witness: a caller without __role has failed, with no event channel,
\* while a caller with a valid kind has constructed its store and used it
C31_Witness ==
    /\ procs["s1"].role = "" /\ procs["s1"].pc = "raised"
    /\ procs["s1"].raised = "ValueError" /\ ~procs["s1"].event
    /\ procs["s2"].role = "master" /\ procs["s2"].used

\* C39 as stated: with open_mode off, when two status calls for the same
\* id, unknown when each began, present different keys and run concurrently,
\* at most one of them returns pending or accepted and the other returns
\* rejected.
C39_FirstSubmissionsExclusive_Original ==
    \A s, t \in Procs :
        (/\ s # t /\ ~opts.open_mode
         /\ procs[s].pc = "done" /\ procs[t].pc = "done"
         /\ procs[s].raised = "" /\ procs[t].raised = ""
         /\ procs[s].minion_id = procs[t].minion_id
         /\ ~procs[s].had /\ ~procs[t].had
         /\ keydata_of(procs[s]) # keydata_of(procs[t])
         /\ procs[s].state \in {PEND, ACC})
        => procs[t].state = REJ

\* C37 as stated: in KeyCLI.run for accept, reject and delete with the
\* question asked, the ids whose key is moved or removed after the operator
\* confirms are among the ids displayed, also when keys matching the pattern
\* were added between the display and the answer.
C37_ConfirmThenAct_Original ==
    (procs.cli.pc = "done" /\ ~procs.cli.yes)
        => procs.cli.mutated \subseteq procs.cli.shown

====
